---- MODULE Spec2Model ----
(***************************************************************************)
(* Picking-sheet pipeline of src/app.py and src/pick.py (column projector, *)
(* grouping/subtotal engine) and the column-letter helpers of              *)
(* src/excel-converter/app_customizable.py.                                *)
(*                                                                         *)
(* Text of a column letter is a sequence of code points (ord), so that     *)
(* strip(), upper() and the "A" <= ch <= "Z" test are computed as the code *)
(* computes them.  A table cell is a record [k, n, s]: k = "nan" for an    *)
(* empty cell (pandas NaN), "num" for a number n, "str" for a text s.      *)
(* The Korean field names and the total sentinel are written in ASCII:     *)
(* code, product, option, qty, recipient, addr, note; TOTAL = "hapgye".    *)
(***************************************************************************)
EXTENDS Integers, Sequences, FiniteSets, TLC

VARIABLES
    variant,      \* which entry point runs: "app", "pick" or "laora"
    colmap,       \* logical field -> column letters (a function on the mapped keys)
    df,           \* the table read from the source file: rows of cells
    pc,           \* position in the pipeline
    err,          \* the exception raised, "" if none
    df_sel,       \* the projected table (seven logical fields)
    df_sorted,    \* df_sel after sort_values
    keys_left,    \* the groupby iterator: group keys not yet visited
    out_chunks,   \* the chunks appended so far
    df_final,     \* the Output Table
    col_letter,   \* column decoding: the letters handed to the decoders
    col_no,       \* column decoding: 0-based position of col_letter among A, B, ..., Z, AA, ...
    col_pc,       \* column decoding: "given" or "decoded"
    col_zero,     \* result of excel_col_to_zero_index
    col_index,    \* result of excel_col_to_index
    opts,         \* run handler: the output options ticked (xlsx, docx, nopb)
    hpc,          \* run handler: the renderer call it is at
    herr,         \* run handler: the exception a renderer raised, "" if none
    rin,          \* the table handed to the renderers: [cols, rows]
    files,        \* names of the artifact files that exist on disk
    exposed,      \* names of the artifacts offered for download
    sheets,       \* the workbooks saved: [name, pb, nrows, breaks]
    docs,         \* the documents saved: [name, pb, body]
    dpc,          \* build_picking_docx: position
    groups,       \* build_picking_docx: the (addr, rows) groups
    gi,           \* build_picking_docx: index of the group being rendered (0-based)
    last_code,    \* build_picking_docx: last_code
    shade_on,     \* build_picking_docx: shade_on
    doc,          \* build_picking_docx: the body elements added so far
    mapping,      \* classify_orders: the (order id, tracking) items of the mapping
    ci,           \* classify_orders: number of items visited
    cpc,          \* classify_orders: "idle", "loop" or "returned"
    lao,          \* classify_orders: the lao dict, items in insertion order
    ss,           \* classify_orders: the ss dict, items in insertion order
    inv_file,     \* run_invoice: the uploaded tracking file
    ss_file,      \* run_invoice: the uploaded smart-store order file
    cp_file,      \* run_invoice: the uploaded Coupang order file
    ipc,          \* run_invoice: position of the handler
    reports,      \* run_invoice: the errors and warnings shown, in order
    df_invoice,   \* run_invoice: the tracking table read, state "none" for None
    df_ss_orders, \* run_invoice: the smart-store order table read
    df_cp_orders, \* run_invoice: the Coupang order table read
    lao_out,      \* run_invoice: lao_out_df
    ss_out,       \* run_invoice: ss_out_df
    cp_out,       \* run_invoice: cp_out_df
    downloads,    \* run_invoice: the artifacts offered for download, in order
    template_columns, \* app_customizable.py: the columns of the template
    session_mapping,  \* st.session_state["mapping"]
    mpc,          \* mapping section of the script: position in the rerun
    mapping_upload,   \* the content of the mapping JSON uploader
    batch_files,  \* run_batch: the uploaded files, in upload order
    bi,           \* run_batch: number of files the loop has handled
    bpc,          \* run_batch: position of the handler
    logs,         \* run_batch: the log entries, in order
    zip_entries,  \* run_batch: the members written to the ZIP, in order
    batch_download \* run_batch: the ZIP offered for download, or none

pipe_vars == <<variant, colmap, df, pc, err, df_sel, df_sorted, keys_left, out_chunks, df_final>>
col_vars == <<col_letter, col_no, col_pc, col_zero, col_index>>
handler_vars == <<opts, hpc, herr, rin, files, exposed, sheets, docs>>
docx_vars == <<dpc, groups, gi, last_code, shade_on, doc>>
rend_vars == <<handler_vars, docx_vars>>
cls_vars == <<mapping, ci, cpc, lao, ss>>
inv_vars == <<inv_file, ss_file, cp_file, ipc, reports, df_invoice, df_ss_orders,
              df_cp_orders, lao_out, ss_out, cp_out, downloads>>
map_vars == <<template_columns, session_mapping, mpc, mapping_upload>>
batch_vars == <<batch_files, bi, bpc, logs, zip_entries, batch_download>>
aux_vars == <<inv_vars, map_vars, batch_vars>>
vars == <<pipe_vars, col_vars, rend_vars, cls_vars, aux_vars>>

(***************************************************************************)
(* Bounds                                                                  *)
(***************************************************************************)
\* most rows of an input table
MaxRows == 3
\* most characters of a column-letter string
MaxLen == 2

(***************************************************************************)
(* Characters and column-letter decoding                                   *)
(***************************************************************************)
OrdA == 65
OrdZ == 90
OrdSpace == 32

Front(s) == SubSeq(s, 1, Len(s) - 1)

\* str.strip(): leading and trailing whitespace removed
RECURSIVE LStrip(_)
LStrip(s) == IF s # <<>> /\ Head(s) = OrdSpace THEN LStrip(Tail(s)) ELSE s

RECURSIVE RStrip(_)
RStrip(s) == IF s # <<>> /\ s[Len(s)] = OrdSpace THEN RStrip(Front(s)) ELSE s

Strip(s) == RStrip(LStrip(s))

\* str.upper() on ASCII text
Upper(s) == [i \in 1..Len(s) |-> IF s[i] >= 97 /\ s[i] <= 122 THEN s[i] - 32 ELSE s[i]]

Ok(v) == [err |-> "", v |-> v]
Raise(e) == [err |-> e, v |-> 0]

\* the loop "for ch in col_letter" with accumulator n; a character outside
\* A..Z raises ValueError
RECURSIVE DecodeLoop(_, _)
DecodeLoop(s, n) ==
    IF s = <<>> THEN Ok(n)
    ELSE IF ~(OrdA <= Head(s) /\ Head(s) <= OrdZ) THEN Raise("ValueError")
    ELSE DecodeLoop(Tail(s), n * 26 + (Head(s) - OrdA + 1))

Minus1(r) == IF r.err = "" THEN Ok(r.v - 1) ELSE r

\* the decoder without its final "- 1" (1-based column number returned)
excel_col_to_zero_index_mut(s) == DecodeLoop(Upper(Strip(s)), 0)

\* app.py / pick.py: no check that the stripped text is non-empty
excel_col_to_zero_index(s) == Minus1(DecodeLoop(Upper(Strip(s)), 0))

\* re.fullmatch(r"[A-Z]+", text)
FullMatchLetters(s) == s # <<>> /\ \A i \in 1..Len(s) : OrdA <= s[i] /\ s[i] <= OrdZ

\* app_customizable.py
excel_col_to_index(s) ==
    LET t == Upper(Strip(s))
    IN  IF ~FullMatchLetters(t) THEN Raise("ValueError") ELSE Minus1(DecodeLoop(t, 0))

\* the spreadsheet's next column name: A -> B, Z -> AA, AZ -> BA, ZZ -> AAA
RECURSIVE NextColumnName(_)
NextColumnName(s) ==
    IF s = <<>> THEN <<OrdA>>
    ELSE IF s[Len(s)] = OrdZ THEN NextColumnName(Front(s)) \o <<OrdA>>
    ELSE Front(s) \o <<s[Len(s)] + 1>>

(***************************************************************************)
(* Cells, rows and tables                                                  *)
(***************************************************************************)
NaN == [k |-> "nan", n |-> 0, s |-> ""]
Num(n) == [k |-> "num", n |-> n, s |-> ""]
Str(s) == [k |-> "str", n |-> 0, s |-> s]

\* the sentinel written into the product field of a subtotal row
TOTAL == "hapgye"

need_keys == <<"code", "product", "option", "qty", "recipient", "addr", "note">>
NeedKeySet == {need_keys[i] : i \in 1..Len(need_keys)}

\* the texts that occur in cells, in Python's str order (code points: digits,
\* upper case, lower case, Hangul)
StrOrder == <<"1", "2", "3", "Busan", "Daegu", "K5", "K9", "Seoul", "Seoul ", "n", "o", "p", "q", "r", "x", TOTAL>>
StrRank(s) == CHOOSE i \in 1..Len(StrOrder) : StrOrder[i] = s

\* position of a non-empty cell in the order of its column (a column holds
\* numbers or texts, not both)
Rank(c) == IF c.k = "num" THEN c.n ELSE StrRank(c.s)

Alphabet == <<"A", "B", "C", "D", "E", "F", "G", "H", "I", "J", "K", "L", "M",
              "N", "O", "P", "Q", "R", "S", "T", "U", "V", "W", "X", "Y", "Z">>
Ord(ch) == OrdA - 1 + (CHOOSE i \in 1..26 : Alphabet[i] = ch)
Letter(ch) == <<Ord(ch)>>

Column(t, f) == [i \in 1..Len(t) |-> t[i][f]]

(***************************************************************************)
(* The renderers and the order classifier before they are called           *)
(***************************************************************************)
\* last_code = None
NoCode == [k |-> "none", n |-> 0, s |-> ""]
NoTable == [cols |-> <<>>, rows |-> <<>>]
NoOpts == [xlsx |-> FALSE, docx |-> FALSE, nopb |-> FALSE]

DocxIdle ==
    /\ dpc = "idle"
    /\ groups = <<>>
    /\ gi = 0
    /\ last_code = NoCode
    /\ shade_on = FALSE
    /\ doc = <<>>

RenderIdle ==
    /\ opts = NoOpts
    /\ hpc = "idle"
    /\ herr = ""
    /\ rin = NoTable
    /\ files = {}
    /\ exposed = {}
    /\ sheets = <<>>
    /\ docs = <<>>
    /\ DocxIdle

ClassifyIdle ==
    /\ mapping = <<>>
    /\ ci = 0
    /\ cpc = "idle"
    /\ lao = <<>>
    /\ ss = <<>>

\* no file uploaded, no table read (None)
NoFile == [state |-> "none", cols |-> {}, rows |-> <<>>]

InvoiceIdle ==
    /\ inv_file = NoFile
    /\ ss_file = NoFile
    /\ cp_file = NoFile
    /\ ipc = "idle"
    /\ reports = <<>>
    /\ df_invoice = NoFile
    /\ df_ss_orders = NoFile
    /\ df_cp_orders = NoFile
    /\ lao_out = NoFile
    /\ ss_out = NoFile
    /\ cp_out = NoFile
    /\ downloads = <<>>

\* st.session_state without a "mapping" entry
NoMapping == [set |-> FALSE, m |-> <<>>]

\* no mapping JSON in the uploader
NoUpload == [kind |-> "none", m |-> <<>>]

MappingIdle ==
    /\ template_columns = {}
    /\ session_mapping = NoMapping
    /\ mpc = "idle"
    /\ mapping_upload = NoUpload

BatchIdle ==
    /\ batch_files = <<>>
    /\ bi = 0
    /\ bpc = "idle"
    /\ logs = <<>>
    /\ zip_entries = <<>>
    /\ batch_download = <<>>

AuxIdle == InvoiceIdle /\ MappingIdle /\ BatchIdle

(***************************************************************************)
(* Column Projector                                                        *)
(***************************************************************************)
\* DataFrame.iloc[:, idxs]: a negative position counts from the last column,
\* a position outside the table raises IndexError
IlocInBounds(ncols, idx) == idx < ncols /\ idx >= 0 - ncols
IlocPos(ncols, idx) == IF idx < 0 THEN ncols + idx ELSE idx

ProjectRow(raw, ncols, idxs) ==
    [f \in NeedKeySet |-> raw[IlocPos(ncols, idxs[f]) + 1]]

Failed(e) == [err |-> e, table |-> <<>>]
Built(t) == [err |-> "", table |-> t]

\* decode every mapped letter, then select the columns
SelectColumns(cm, d) ==
    LET dec == [f \in NeedKeySet |-> excel_col_to_zero_index(cm[f])]
        idxs == [f \in NeedKeySet |-> dec[f].v]
    IN  IF \E f \in NeedKeySet : dec[f].err # "" THEN Failed("ValueError")
        ELSE IF \E f \in NeedKeySet : ~IlocInBounds(d.ncols, idxs[f]) THEN Failed("IndexError")
        ELSE Built([i \in 1..Len(d.rows) |-> ProjectRow(d.rows[i], d.ncols, idxs)])

\* app.py, build_picking_dataframe: a key that is absent or whose letters are
\* blank is reported before anything is decoded
ProjectApp(cm, d) ==
    IF \E f \in NeedKeySet : f \notin DOMAIN cm \/ Strip(cm[f]) = <<>> THEN Failed("ValueError")
    ELSE SelectColumns(cm, d)

\* pick.py, build_picking_sheet: colmap[k] of an absent key raises KeyError
ProjectPick(cm, d) ==
    IF \E f \in NeedKeySet : f \notin DOMAIN cm THEN Failed("KeyError")
    ELSE SelectColumns(cm, d)

(***************************************************************************)
(* Grouping/Subtotal Engine                                                *)
(***************************************************************************)
\* lexsort_indexer: each key column is coded by the rank of its value among
\* the column's distinct values; an empty cell is coded n (last); a
\* descending key is coded n - code - 1
Categories(col) == {Rank(col[i]) : i \in {j \in 1..Len(col) : col[j].k # "nan"}}
CatCode(col, c) == Cardinality({x \in Categories(col) : x < Rank(c)})

AscKey(col, c) ==
    LET n == Cardinality(Categories(col))
    IN  IF c.k = "nan" THEN n ELSE CatCode(col, c)

DescKey(col, c) ==
    LET n == Cardinality(Categories(col))
    IN  IF c.k = "nan" THEN n ELSE n - CatCode(col, c) - 1

\* by=[addr, code], ascending=[True, True]
SortKeys_CodeAscending(t) ==
    [i \in 1..Len(t) |-> <<AscKey(Column(t, "addr"), t[i].addr),
                           AscKey(Column(t, "code"), t[i].code)>>]

\* by=[addr, code], ascending=[True, False]
SortKeys(t) ==
    [i \in 1..Len(t) |-> <<AscKey(Column(t, "addr"), t[i].addr),
                           DescKey(Column(t, "code"), t[i].code)>>]

KeyLess(a, b) == a[1] < b[1] \/ (a[1] = b[1] /\ a[2] < b[2])
KeyLeq(a, b) == ~KeyLess(b, a)

InsertAt(s, p, x) == SubSeq(s, 1, p) \o <<x>> \o SubSeq(s, p + 1, Len(s))

\* an insertion that puts a row before the rows of equal keys
InsertBeforeEqual(sorted, i, K) ==
    InsertAt(sorted, Cardinality({j \in 1..Len(sorted) : KeyLess(K[sorted[j]], K[i])}), i)

\* position i goes after every position already placed whose keys are not
\* greater: equal keys keep their order
InsertStable(sorted, i, K) ==
    InsertAt(sorted, Cardinality({j \in 1..Len(sorted) : KeyLeq(K[sorted[j]], K[i])}), i)

RECURSIVE Lexsort(_, _)
Lexsort(K, m) == IF m = 0 THEN <<>> ELSE InsertStable(Lexsort(K, m - 1), m, K)

sort_values(t) ==
    LET indexer == Lexsort(SortKeys(t), Len(t))
    IN  [j \in 1..Len(t) |-> t[indexer[j]]]

\* groupby("addr", sort=False): the distinct keys in order of first
\* appearance; rows whose key is empty belong to no group (dropna)
RECURSIVE KeysFrom(_, _)
KeysFrom(t, i) ==
    IF i > Len(t) THEN <<>>
    ELSE IF t[i].addr.k = "nan" \/ \E j \in 1..(i - 1) : t[j].addr = t[i].addr
         THEN KeysFrom(t, i + 1)
         ELSE <<t[i].addr>> \o KeysFrom(t, i + 1)

GroupKeys(t) == KeysFrom(t, 1)

HasAddr(r, key) == r.addr = key
GroupRows(t, key) == SelectSeq(t, LAMBDA r : HasAddr(r, key))

\* pd.to_numeric(errors="coerce") on one cell
NumericText == {"1", "2", "3"}
ParseInt(s) == StrRank(s)

\* a conversion that counts any text as 1 instead of coercing it
to_numeric_TextCountsOne(c) ==
    IF c.k = "num" THEN c
    ELSE IF c.k = "str" THEN Num(1)
    ELSE NaN

to_numeric(c) ==
    IF c.k = "num" THEN c
    ELSE IF c.k = "str" /\ c.s \in NumericText THEN Num(ParseInt(c.s))
    ELSE NaN

fillna0(c) == IF c.k = "nan" THEN 0 ELSE c.n

RECURSIVE SumQty(_)
SumQty(g) == IF g = <<>> THEN 0 ELSE fillna0(to_numeric(Head(g).qty)) + SumQty(Tail(g))

\* a subtotal that counts the group's rows
SubtotalQty_RowCount(g) == Len(g)

\* pd.to_numeric(g[qty], errors="coerce").fillna(0).sum()
SubtotalQty(g) == SumQty(g)

\* a subtotal row that leaves the address blank like the other fields
SubtotalRow_BlankAddr(addr, g) ==
    [f \in NeedKeySet |->
        IF f = "product" THEN Str(TOTAL)
        ELSE IF f = "qty" THEN Num(SubtotalQty(g))
        ELSE Str("")]

SubtotalRow(addr, g) ==
    [f \in NeedKeySet |->
        IF f = "product" THEN Str(TOTAL)
        ELSE IF f = "qty" THEN Num(SubtotalQty(g))
        ELSE IF f = "addr" THEN addr
        ELSE Str("")]

RECURSIVE Flatten(_)
Flatten(chunks) == IF chunks = <<>> THEN <<>> ELSE Head(chunks) \o Flatten(Tail(chunks))

\* all groups first, then all subtotal rows
RECURSIVE EveryOther(_, _)
EveryOther(chunks, i) ==
    IF i > Len(chunks) THEN <<>> ELSE chunks[i] \o EveryOther(chunks, i + 2)

concat_SubtotalsLast(chunks) == EveryOther(chunks, 1) \o EveryOther(chunks, 2)

\* pd.concat(out_chunks, ignore_index=True)
concat(chunks) == Flatten(chunks)

(***************************************************************************)
(* The pipeline, step by step                                              *)
(***************************************************************************)
Project ==
    /\ pc = "start"
    /\ variant \in {"app", "pick"}
    /\ LET res == IF variant = "app" THEN ProjectApp(colmap, df) ELSE ProjectPick(colmap, df)
       IN  /\ err' = res.err
           /\ df_sel' = res.table
           /\ pc' = IF res.err = "" THEN "projected" ELSE "error"
    /\ UNCHANGED <<variant, colmap, df, df_sorted, keys_left, out_chunks, df_final>>
    /\ UNCHANGED <<col_vars, rend_vars, cls_vars, aux_vars>>

Sort ==
    /\ pc = "projected"
    /\ df_sorted' = sort_values(df_sel)
    /\ keys_left' = GroupKeys(sort_values(df_sel))
    /\ pc' = "grouping"
    /\ UNCHANGED <<variant, colmap, df, err, df_sel, out_chunks, df_final>>
    /\ UNCHANGED <<col_vars, rend_vars, cls_vars, aux_vars>>

\* one iteration of "for addr, g in df_sorted.groupby(...)"
GroupStep ==
    /\ pc = "grouping"
    /\ keys_left # <<>>
    /\ LET addr == Head(keys_left)
           g == GroupRows(df_sorted, addr)
       IN  out_chunks' = out_chunks \o <<g, <<SubtotalRow(addr, g)>>>>
    /\ keys_left' = Tail(keys_left)
    /\ UNCHANGED <<variant, colmap, df, pc, err, df_sel, df_sorted, df_final>>
    /\ UNCHANGED <<col_vars, rend_vars, cls_vars, aux_vars>>

\* pd.concat raises ValueError when there is nothing to concatenate
Concat ==
    /\ pc = "grouping"
    /\ keys_left = <<>>
    /\ IF out_chunks = <<>>
       THEN /\ pc' = "error"
            /\ err' = "ValueError"
            /\ UNCHANGED df_final
       ELSE /\ pc' = "done"
            /\ df_final' = concat(out_chunks)
            /\ UNCHANGED err
    /\ UNCHANGED <<variant, colmap, df, df_sel, df_sorted, keys_left, out_chunks>>
    /\ UNCHANGED <<col_vars, rend_vars, cls_vars, aux_vars>>

(***************************************************************************)
(* run_laora of app_customizable.py: mapping resolution and conversion     *)
(***************************************************************************)
\* lines 237..246: an empty letter is skipped, a letter that does not decode
\* or lies beyond the source's columns raises
LaoraMapped(cm) == {f \in DOMAIN cm : cm[f] # <<>>}

ResolveMapping(cm, d) ==
    LET dec == [f \in LaoraMapped(cm) |-> excel_col_to_index(cm[f])]
    IN  IF \E f \in LaoraMapped(cm) : dec[f].err # "" THEN Failed("ValueError")
        ELSE IF \E f \in LaoraMapped(cm) : dec[f].v >= d.ncols THEN Failed("IndexError")
        ELSE Built([f \in LaoraMapped(cm) |-> dec[f].v])

\* lines 229, 250..258: unmapped template columns stay empty, the quantity
\* column is converted to numbers
LaoraResult(resolved, d) ==
    [i \in 1..Len(d.rows) |->
        [f \in NeedKeySet |->
            IF f \notin DOMAIN resolved THEN NaN
            ELSE IF f = "qty" THEN to_numeric(d.rows[i][resolved[f] + 1])
            ELSE d.rows[i][resolved[f] + 1]]]

RunLaora ==
    /\ pc = "start"
    /\ variant = "laora"
    /\ IF DOMAIN colmap = {}
       THEN /\ pc' = "error"
            /\ err' = "NoMapping"
            /\ UNCHANGED df_sel
       ELSE LET res == ResolveMapping(colmap, df)
            IN  IF res.err # ""
                THEN /\ pc' = "error"
                     /\ err' = res.err
                     /\ UNCHANGED df_sel
                ELSE /\ pc' = "converted"
                     /\ df_sel' = LaoraResult(res.table, df)
                     /\ UNCHANGED err
    /\ UNCHANGED <<variant, colmap, df, df_sorted, keys_left, out_chunks, df_final>>
    /\ UNCHANGED <<col_vars, rend_vars, cls_vars, aux_vars>>

(***************************************************************************)
(* Inputs                                                                  *)
(***************************************************************************)
\* columns of the source sheet (the default mapping reaches column W)
SheetCols == 23

\* app.py, lines 389..397; pick.py, lines 37..45
DefaultColmap(v) ==
    [f \in NeedKeySet |->
        IF f = "code" THEN Letter("J")
        ELSE IF f = "product" THEN Letter("K")
        ELSE IF f = "option" THEN Letter("L")
        ELSE IF f = "qty" THEN Letter("N")
        ELSE IF f = "recipient" THEN (IF v = "app" THEN Letter("S") ELSE Letter("Q"))
        ELSE IF f = "addr" THEN Letter("V")
        ELSE Letter("W")]

OrderRow(code, product, qty, addr) ==
    [f \in NeedKeySet |->
        IF f = "code" THEN code
        ELSE IF f = "product" THEN product
        ELSE IF f = "qty" THEN qty
        ELSE IF f = "addr" THEN addr
        ELSE IF f = "recipient" THEN Str("r")
        ELSE NaN]

\* the order rows input tables are built from: the three rows of the spec's
\* example, rows sharing both sort keys, an empty code, an empty address,
\* quantities that are text, not numeric or missing, a product named like
\* the sentinel
RowUniverse ==
    { OrderRow(Num(5), Str("p"), Num(1), Str("Seoul")),
      OrderRow(Num(3), Str("p"), Num(2), Str("Seoul")),
      OrderRow(Num(9), Str("p"), Num(3), Str("Busan")),
      OrderRow(Num(5), Str("q"), Str("x"), Str("Seoul")),
      OrderRow(NaN, Str("p"), Str("2"), Str("Seoul")),
      OrderRow(Num(9), Str(TOTAL), NaN, Str("Busan")),
      OrderRow(Num(3), Str("q"), Num(2), Str("Busan")),
      OrderRow(Num(3), Str("p"), Num(1), NaN) }

\* the sheet row that holds order row r in the columns of the default mapping
SheetRow(v, r) ==
    [c \in 1..SheetCols |->
        IF \E f \in NeedKeySet : excel_col_to_zero_index(DefaultColmap(v)[f]).v + 1 = c
        THEN r[CHOOSE f \in NeedKeySet : excel_col_to_zero_index(DefaultColmap(v)[f]).v + 1 = c]
        ELSE NaN]

Tables == UNION {[1..n -> RowUniverse] : n \in 0..MaxRows}

PipeStart ==
    /\ pc = "start"
    /\ err = ""
    /\ df_sel = <<>>
    /\ df_sorted = <<>>
    /\ keys_left = <<>>
    /\ out_chunks = <<>>
    /\ df_final = <<>>

Init ==
    /\ variant \in {"app", "pick"}
    /\ colmap = DefaultColmap(variant)
    /\ \E t \in Tables :
          df = [ncols |-> SheetCols, rows |-> [i \in 1..Len(t) |-> SheetRow(variant, t[i])]]
    /\ PipeStart
    /\ col_letter = <<OrdA>>
    /\ col_no = 0
    /\ col_pc = "given"
    /\ col_zero = Raise("none")
    /\ col_index = Raise("none")
    /\ RenderIdle
    /\ ClassifyIdle
    /\ AuxIdle

Next == Project \/ Sort \/ GroupStep \/ Concat

Spec == Init /\ [][Next]_vars

(***************************************************************************)
(* Inputs of the projector: a seven-column text table and mappings in      *)
(* which one key is absent or carries arbitrary letters                    *)
(***************************************************************************)
ProjChars == {OrdSpace, 49, OrdA, Ord("H"), 97}
LetterSamples == UNION {[1..n -> ProjChars] : n \in 0..MaxLen}

BaseColmap ==
    [f \in NeedKeySet |-> Letter(Alphabet[CHOOSE i \in 1..Len(need_keys) : need_keys[i] = f])]

ProjColmaps ==
    {[BaseColmap EXCEPT ![f] = s] : f \in NeedKeySet, s \in LetterSamples}
    \cup {[g \in NeedKeySet \ {f} |-> BaseColmap[g]] : f \in NeedKeySet}
    \cup {<<>>}

ProjTable ==
    [ncols |-> Len(need_keys),
     rows |-> << <<Str("K5"), Str("p"), Str("o"), Str("1"), Str("r"), Str("Seoul"), Str("n")>>,
                 <<Str("K9"), Str("q"), Str("o"), Str("3"), Str("r"), Str("Busan"), Str("n")>> >>]

InitProj ==
    /\ variant \in {"app", "pick", "laora"}
    /\ colmap \in ProjColmaps
    /\ df = ProjTable
    /\ PipeStart
    /\ col_letter = <<OrdA>>
    /\ col_no = 0
    /\ col_pc = "given"
    /\ col_zero = Raise("none")
    /\ col_index = Raise("none")
    /\ RenderIdle
    /\ ClassifyIdle
    /\ AuxIdle

NextProj == Project \/ RunLaora \/ Sort \/ GroupStep \/ Concat

SpecProj == InitProj /\ [][NextProj]_vars

(***************************************************************************)
(* Column decoding as a state machine: the columns of a sheet are decoded  *)
(* one after the other, in sheet order.                                    *)
(***************************************************************************)
NoResult == Raise("none")

ColInit ==
    /\ col_letter = <<OrdA>>
    /\ col_no = 0
    /\ col_pc = "given"
    /\ col_zero = NoResult
    /\ col_index = NoResult

DecodeColumn ==
    /\ col_pc = "given"
    /\ col_zero' = excel_col_to_zero_index(col_letter)
    /\ col_index' = excel_col_to_index(col_letter)
    /\ col_pc' = "decoded"
    /\ UNCHANGED <<col_letter, col_no>>
    /\ UNCHANGED <<pipe_vars, rend_vars, cls_vars, aux_vars>>

NextColumn ==
    /\ col_pc = "decoded"
    /\ Len(NextColumnName(col_letter)) <= MaxLen
    /\ col_letter' = NextColumnName(col_letter)
    /\ col_no' = col_no + 1
    /\ col_pc' = "given"
    /\ UNCHANGED <<col_zero, col_index>>
    /\ UNCHANGED <<pipe_vars, rend_vars, cls_vars, aux_vars>>

PipeIdle ==
    /\ variant = "app"
    /\ colmap = <<>>
    /\ df = <<>>
    /\ pc = "idle"
    /\ err = ""
    /\ df_sel = <<>>
    /\ df_sorted = <<>>
    /\ keys_left = <<>>
    /\ out_chunks = <<>>
    /\ df_final = <<>>

InitCol == ColInit /\ PipeIdle /\ RenderIdle /\ ClassifyIdle /\ AuxIdle
NextCol == DecodeColumn \/ NextColumn
SpecCol == InitCol /\ [][NextCol]_vars

\* C9: the k-th column name of a sheet (k = 0 for A, 25 for Z, 26 for AA, ...)
\* decodes to k under both decoders, so decoding is one-to-one from the column
\* names onto 0, 1, 2, ... and equals the 1-based column number minus 1.
C9_DecodeIsColumnNumberMinus1 ==
    col_pc = "decoded" =>
        /\ col_zero = Ok(col_no)
        /\ col_index = Ok(col_no)
        /\ (col_letter = <<OrdA>> => col_zero.v = 0)
        /\ (col_letter = <<OrdZ>> => col_zero.v = 25)
        /\ (col_letter = <<OrdA, OrdA>> => col_zero.v = 26)

C9_Witness == col_pc = "decoded" /\ col_letter = <<OrdA, OrdA>> /\ col_zero = Ok(26)

(***************************************************************************)
(* Properties of the Output Table                                          *)
(***************************************************************************)
Blank == Str("")

\* a synthetic row: the sentinel as product and the four text fields blank
\* (a cell read from a sheet is never the empty text: it is NaN)
IsSubtotalRow(r) ==
    /\ r.product = Str(TOTAL)
    /\ r.code = Blank
    /\ r.option = Blank
    /\ r.recipient = Blank
    /\ r.note = Blank

IsOrderRow(r) == ~IsSubtotalRow(r)
OrderRows(t) == SelectSeq(t, IsOrderRow)

\* the address values of a table; an empty cell is not a value
AddrValues(t) == {t[i].addr : i \in {j \in 1..Len(t) : t[j].addr.k # "nan"}}

\* what a quantity cell counts for: its number, the number a numeric text
\* spells, 0 otherwise
QtyValue(c) ==
    IF c.k = "num" THEN c.n
    ELSE IF c = Str("1") THEN 1
    ELSE IF c = Str("2") THEN 2
    ELSE IF c = Str("3") THEN 3
    ELSE 0

RECURSIVE QtySum(_)
QtySum(t) == IF t = <<>> THEN 0 ELSE QtyValue(Head(t).qty) + QtySum(Tail(t))

RowsAt(t, a) == SelectSeq(t, LAMBDA r : r.addr = a)
Count(t, r) == Cardinality({i \in 1..Len(t) : t[i] = r})
Range(t) == {t[i] : i \in 1..Len(t)}

\* C1: the Output Table holds exactly one subtotal row for each address value
\* of the input (and none for anything else), and its quantity is the sum of
\* the numeric-coerced quantities of the input rows with that address.
C1_OneSubtotalPerAddress ==
    pc = "done" =>
        /\ \A a \in AddrValues(df_sel) :
              LET subs == {i \in 1..Len(df_final) :
                              IsSubtotalRow(df_final[i]) /\ df_final[i].addr = a}
              IN  /\ Cardinality(subs) = 1
                  /\ \A i \in subs : df_final[i].qty = Num(QtySum(RowsAt(df_sel, a)))
        /\ \A i \in 1..Len(df_final) :
              IsSubtotalRow(df_final[i]) => df_final[i].addr \in AddrValues(df_sel)

C1_Witness ==
    /\ pc = "done"
    /\ Cardinality(AddrValues(df_sel)) = 2
    /\ \E i, j \in 1..Len(df_sel) :
          /\ i # j
          /\ df_sel[i].addr = df_sel[j].addr
          /\ df_sel[i].qty = Str("x")
          /\ df_sel[j].qty.k = "num"

\* C2: the Output Table has as many rows as the input plus one per distinct
\* address value, whatever the cells hold.
C2_RowCount ==
    pc = "done" => Len(df_final) = Len(df_sel) + Cardinality(AddrValues(df_sel))

\* C3: the order rows of the Output Table are the projected input rows, each
\* as often as in the input.
C3_RowsPreserved ==
    pc = "done" =>
        \A r \in Range(df_sel) \cup Range(OrderRows(df_final)) :
            Count(OrderRows(df_final), r) = Count(df_sel, r)

\* the order of two cells of one column; an empty code is the lowest
CellLeq(a, b) == a.k = "nan" \/ (b.k # "nan" /\ Rank(a) <= Rank(b))

\* C4: rows of one address are contiguous, the addresses ascend, and within
\* an address the order rows descend by code (rows without a code last).
C4_GroupedAndOrdered ==
    pc = "done" =>
        /\ \A i, j, k \in 1..Len(df_final) :
              (i < j /\ j < k /\ df_final[i].addr = df_final[k].addr)
                  => df_final[j].addr = df_final[i].addr
        /\ \A i, j \in 1..Len(df_final) :
              i < j => Rank(df_final[i].addr) <= Rank(df_final[j].addr)
        /\ \A i, j \in 1..Len(df_final) :
              (/\ i < j
               /\ df_final[i].addr = df_final[j].addr
               /\ IsOrderRow(df_final[i])
               /\ IsOrderRow(df_final[j]))
                  => CellLeq(df_final[j].code, df_final[i].code)

C4_Witness ==
    /\ pc = "done"
    /\ df_sorted # df_sel
    /\ Cardinality(AddrValues(df_sel)) = 2
    /\ \E i, j \in 1..Len(df_final) :
          /\ i < j
          /\ df_final[i].addr = df_final[j].addr
          /\ IsOrderRow(df_final[j])
          /\ df_final[i].code # df_final[j].code

SameKeys(t, r) == SelectSeq(t, LAMBDA x : x.addr = r.addr /\ x.code = r.code)

\* C5: rows that agree in address and code keep their input order, in the
\* sorted table and in the Output Table.
C5_StableSort ==
    /\ pc \in {"grouping", "done"} =>
          \A i \in 1..Len(df_sel) : SameKeys(df_sorted, df_sel[i]) = SameKeys(df_sel, df_sel[i])
    /\ pc = "done" =>
          \A i \in 1..Len(df_sel) :
              df_sel[i].addr.k # "nan"
                  => SameKeys(df_final, df_sel[i]) = SameKeys(df_sel, df_sel[i])

C5_Witness ==
    /\ pc = "done"
    /\ \E i, j \in 1..Len(df_sel) :
          /\ i < j
          /\ df_sel[i].addr.k # "nan"
          /\ df_sel[i].addr = df_sel[j].addr
          /\ df_sel[i].code = df_sel[j].code
          /\ df_sel[i] # df_sel[j]
          /\ \E k \in 1..Len(df_sel) : k < i /\ KeyLess(SortKeys(df_sel)[j], SortKeys(df_sel)[k])

\* C6: every order row is followed by a row of its address; every subtotal
\* row follows an order row of its address and is followed, if at all, by an
\* order row of another address; the last row is a subtotal row.
C6_SubtotalsInterleaved ==
    pc = "done" =>
        /\ df_final # <<>>
        /\ IsSubtotalRow(df_final[Len(df_final)])
        /\ \A i \in 1..Len(df_final) :
              IF IsOrderRow(df_final[i])
              THEN /\ i < Len(df_final)
                   /\ df_final[i + 1].addr = df_final[i].addr
              ELSE /\ i > 1
                   /\ IsOrderRow(df_final[i - 1])
                   /\ df_final[i - 1].addr = df_final[i].addr
                   /\ i < Len(df_final) =>
                         /\ IsOrderRow(df_final[i + 1])
                         /\ df_final[i + 1].addr # df_final[i].addr

C6_Witness ==
    /\ pc = "done"
    /\ \E i \in 2..(Len(df_final) - 2) :
          /\ IsSubtotalRow(df_final[i])
          /\ IsOrderRow(df_final[i + 1])
          /\ IsOrderRow(df_final[i + 2])

ExampleInput ==
    << OrderRow(Num(5), Str("p"), Num(1), Str("Seoul")),
       OrderRow(Num(3), Str("p"), Num(2), Str("Seoul")),
       OrderRow(Num(9), Str("p"), Num(3), Str("Busan")) >>

ExampleSubtotal(a, q) ==
    [f \in NeedKeySet |->
        IF f = "product" THEN Str(TOTAL)
        ELSE IF f = "qty" THEN Num(q)
        ELSE IF f = "addr" THEN Str(a)
        ELSE Blank]

\* C7 as stated: for the example input the Output Table is Busan/9/3,
\* Seoul/5/1, Seoul/3/2, SUBTOTAL(Busan,3), SUBTOTAL(Seoul,3).
C7_ExampleAsStated ==
    (pc = "done" /\ df_sel = ExampleInput) =>
        df_final = << ExampleInput[3], ExampleInput[1], ExampleInput[2],
                      ExampleSubtotal("Busan", 3), ExampleSubtotal("Seoul", 3) >>

\* C7 amended: for the example input the Output Table is Busan/9/3,
\* SUBTOTAL(Busan,3), Seoul/5/1, Seoul/3/2, SUBTOTAL(Seoul,3).
C7_ExampleInterleaved ==
    (pc = "done" /\ df_sel = ExampleInput) =>
        df_final = << ExampleInput[3], ExampleSubtotal("Busan", 3),
                      ExampleInput[1], ExampleInput[2], ExampleSubtotal("Seoul", 3) >>

C7_Witness == pc = "done" /\ df_sel = ExampleInput /\ Len(df_final) = 5

\* the last row of each run of equal addresses
IsRunEnd(t, i) == i = Len(t) \/ t[i + 1].addr # t[i].addr
RunBefore(t, i) ==
    SelectSeq(SubSeq(t, 1, i - 1), LAMBDA r : r.addr = t[i].addr)

\* C8: the row that closes an address group carries the sentinel as product,
\* the group's address, the group's sum as quantity, and blank code, option,
\* recipient and note.
C8_SubtotalRowShape ==
    pc = "done" =>
        \A i \in 1..Len(df_final) :
            IsRunEnd(df_final, i) =>
                /\ df_final[i].product = Str(TOTAL)
                /\ df_final[i].addr \in AddrValues(df_sel)
                /\ RunBefore(df_final, i) # <<>>
                /\ df_final[i].qty = Num(QtySum(RunBefore(df_final, i)))
                /\ df_final[i].code = Blank
                /\ df_final[i].option = Blank
                /\ df_final[i].recipient = Blank
                /\ df_final[i].note = Blank

C8_Witness ==
    /\ pc = "done"
    /\ \E i \in 1..Len(df_final) :
          /\ IsRunEnd(df_final, i)
          /\ Len(RunBefore(df_final, i)) >= 2
          /\ df_final[i].qty.n >= 3
          /\ \E j \in 1..(i - 1) : df_final[j].product = Str(TOTAL)

(***************************************************************************)
(* Properties of the projector                                             *)
(***************************************************************************)
\* the letters as the projector reads them
Trimmed(s) == Upper(Strip(s))
Malformed(s) == Trimmed(s) = <<>> \/ \E i \in 1..Len(Trimmed(s)) : ~(Trimmed(s)[i] \in OrdA..OrdZ)

RECURSIVE ColumnNumber(_)
ColumnNumber(s) ==
    IF s = <<>> THEN 0 ELSE 26 * ColumnNumber(Front(s)) + (s[Len(s)] - OrdA + 1)

BadLetter(s, ncols) == Malformed(s) \/ ColumnNumber(Trimmed(s)) - 1 >= ncols

\* C10: a mapping with a malformed letter, or a letter beyond the table's
\* columns, makes the projection fail: no table is produced.
C10_BadMappingFails ==
    (pc # "start" /\ \E f \in DOMAIN colmap : BadLetter(colmap[f], df.ncols)) => pc = "error"

(***************************************************************************)
(* The renderers of src/app.py: build_picking_xlsx and build_picking_docx  *)
(***************************************************************************)
\* str() of a non-negative whole number
Digits == <<"0", "1", "2", "3", "4", "5", "6", "7", "8", "9">>
RECURSIVE DecimalText(_)
DecimalText(n) ==
    IF n < 10 THEN Digits[n + 1] ELSE DecimalText(n \div 10) \o Digits[(n % 10) + 1]

\* "" if pd.isna(val) else str(val)
CellText(c) ==
    IF c.k = "nan" THEN ""
    ELSE IF c.k = "num" THEN DecimalText(c.n)
    ELSE c.s

\* str.strip() on the texts of StrOrder: one of them ends in a space
StripText(s) == IF s = "Seoul " THEN "Seoul" ELSE s

\* the required columns a table lacks
RequiredMissing(t) == {f \in NeedKeySet : \A i \in 1..Len(t.cols) : t.cols[i] # f}

\* a renderer that blanks the address of the subtotal rows in the table
\* itself
TableAfterRender_SumAddrBlanked(t) ==
    [t EXCEPT !.rows = [i \in 1..Len(t.rows) |->
        IF /\ {"product", "addr"} \subseteq DOMAIN t.rows[i]
           /\ t.rows[i].product = Str(TOTAL)
        THEN [t.rows[i] EXCEPT !.addr = Str("")]
        ELSE t.rows[i]]]

\* what a renderer leaves of the table it was handed: it reads it, row by
\* row, and assigns to cells of the sheet or of the document only
TableAfterRender(t) == t

\* build_picking_xlsx
\* the value openpyxl returns for a cell: an empty cell is None
SheetCell(c) == IF c.k = "nan" THEN NoCode ELSE c

\* Break(id=r) instead of Break(id=r - 1)
BreakId_AtChange(r) == r

\* the break is put after the row before the change
BreakId(r) == r - 1

\* "for r in range(3, ws.max_row + 1)": sheet row r is row r - 1 of the table
RECURSIVE BreakLoop(_, _, _, _)
BreakLoop(rows, r, prev_addr, brk) ==
    IF r > Len(rows) + 1 THEN brk
    ELSE LET curr_addr == SheetCell(rows[r - 1].addr)
         IN  IF curr_addr # prev_addr
             THEN BreakLoop(rows, r + 1, curr_addr, Append(brk, BreakId(r)))
             ELSE BreakLoop(rows, r + 1, prev_addr, brk)

RowBreaks(rows, add_page_breaks) ==
    IF add_page_breaks /\ Len(rows) + 1 >= 2
    THEN BreakLoop(rows, 3, SheetCell(rows[1].addr), <<>>)
    ELSE <<>>

\* the whole function: to_excel writes the file, then the headers are looked
\* up (KeyError for a missing one), the breaks are set and the file is saved
XlsxRender(t, add_page_breaks) ==
    IF RequiredMissing(t) # {}
    THEN [err |-> "KeyError", written |-> TRUE, nrows |-> 0, breaks |-> <<>>]
    ELSE [err |-> "", written |-> TRUE, nrows |-> Len(t.rows),
          breaks |-> RowBreaks(t.rows, add_page_breaks)]

\* build_picking_docx
\* line 254: the address a row is grouped by
NormAddr(c) == IF c.k = "nan" THEN Str("") ELSE Str(StripText(CellText(c)))

\* lines 251..269: consecutive rows with the same normalised address
RECURSIVE GroupLoop(_, _, _, _, _)
GroupLoop(rows, i, current_addr, current_rows, acc) ==
    IF i > Len(rows)
    THEN IF current_rows # <<>>
         THEN Append(acc, [addr |-> current_addr, rows |-> current_rows])
         ELSE acc
    ELSE LET addr == NormAddr(rows[i].addr)
         IN  IF current_addr = NoCode
             THEN GroupLoop(rows, i + 1, addr, <<rows[i]>>, acc)
             ELSE IF addr # current_addr
             THEN GroupLoop(rows, i + 1, addr, <<rows[i]>>,
                            Append(acc, [addr |-> current_addr, rows |-> current_rows]))
             ELSE GroupLoop(rows, i + 1, current_addr, Append(current_rows, rows[i]), acc)

DocxGroups(rows) == GroupLoop(rows, 1, NoCode, <<>>, <<>>)

\* the texts of StrOrder that contain the sentinel
TextsWithTotal == {TOTAL}

\* a renderer that takes no row for a subtotal row
IsSum_Never(r) == FALSE

\* line 312
IsSum(r) == CellText(r.product) = TOTAL \/ CellText(r.product) \in TextsWithTotal

\* shading carried over from the block before
ShadeAtBlockStart_Carried(prev) == prev

\* line 309
ShadeAtBlockStart(prev) == FALSE

\* lines 338..359: size and weight of the run of one cell; the address cell
\* of a subtotal row gets the empty text and no run
CellFormat(col, text, is_sum) ==
    IF is_sum /\ col = "addr" THEN [text |-> "", size |-> 0, bold |-> FALSE]
    ELSE IF is_sum THEN [text |-> text, size |-> 16, bold |-> TRUE]
    ELSE IF col = "addr" THEN [text |-> text, size |-> 5, bold |-> FALSE]
    ELSE IF col \in {"product", "option"} THEN [text |-> text, size |-> 8, bold |-> FALSE]
    ELSE IF col = "qty" THEN [text |-> text, size |-> 12, bold |-> FALSE]
    ELSE IF col = "code" THEN [text |-> text, size |-> 14, bold |-> TRUE]
    ELSE [text |-> text, size |-> 8, bold |-> FALSE]

\* lines 311..359 for one row, from the loop state st = [shade_on, last_code]
RenderRow(st, r) ==
    LET is_sum == IsSum(r)
        code_val == Str(CellText(r.code))
        toggles == ~is_sum /\ code_val # st.last_code
        shade == IF toggles THEN ~st.shade_on ELSE st.shade_on
        last == IF toggles THEN code_val ELSE st.last_code
    IN  [src |-> r,
         is_sum |-> is_sum,
         shaded |-> shade /\ ~is_sum,
         shade_on |-> shade,
         last_code |-> last,
         cells |-> [col \in NeedKeySet |-> CellFormat(col, CellText(r[col]), is_sum)]]

RECURSIVE RowsLoop(_, _, _)
RowsLoop(rows, st, acc) ==
    IF rows = <<>> THEN acc
    ELSE LET out == RenderRow(st, Head(rows))
         IN  RowsLoop(Tail(rows), [shade_on |-> out.shade_on, last_code |-> out.last_code],
                      Append(acc, out))

RenderRows(rows, shade, last) == RowsLoop(rows, [shade_on |-> shade, last_code |-> last], <<>>)

\* a separator after every block, the last one too
NeedsSeparator_Always(i, n) == TRUE

\* lines 362, 364: gi != len(groups) - 1
NeedsSeparator(i, n) == i # n - 1

\* the elements of a document body
Heading(addr) == [kind |-> "heading", addr |-> addr, rows |-> <<>>]
TableOf(addr, rendered) == [kind |-> "table", addr |-> addr, rows |-> rendered]
PageBreak == [kind |-> "pagebreak", addr |-> Str(""), rows |-> <<>>]
BlankParagraph == [kind |-> "blank", addr |-> Str(""), rows |-> <<>>]

(***************************************************************************)
(* The run handler of src/app.py and the renderers, step by step           *)
(***************************************************************************)
XlsxCalls == {"xlsx", "xlsx_np"}
DocxCalls == {"docx", "docx_np"}

\* add_page_breaks of the call the handler is at
WithPageBreaks(at) == at \in {"xlsx", "docx"}

FirstCall(o) == IF o.xlsx THEN "xlsx" ELSE "docx"

\* the call after "at"; a renderer called on its own just returns
NextCall(at, o) ==
    IF pc # "done" THEN "returned"
    ELSE IF at = "xlsx" THEN (IF o.nopb THEN "xlsx_np" ELSE IF o.docx THEN "docx" ELSE "end")
    ELSE IF at = "xlsx_np" THEN (IF o.docx THEN "docx" ELSE "end")
    ELSE IF at = "docx" THEN (IF o.nopb THEN "docx_np" ELSE "end")
    ELSE "end"

\* a handler that offers the artifact of the next call along with this one
Offered_WithNext(at) == exposed \cup {at, NextCall(at, opts)}

\* st.download_button: only the handler offers an artifact
Offered(at) == IF pc = "done" THEN exposed \cup {at} ELSE exposed

\* lines 432..436: the Output Table is shown and handed to the renderers
StartRender ==
    /\ pc = "done"
    /\ variant = "app"
    /\ hpc = "idle"
    /\ rin' = [cols |-> need_keys, rows |-> df_final]
    /\ hpc' = FirstCall(opts)
    /\ UNCHANGED <<opts, herr, files, exposed, sheets, docs>>
    /\ UNCHANGED <<pipe_vars, col_vars, docx_vars, cls_vars, aux_vars>>

\* writing a file succeeds or raises (disk, permissions)
WriteOutcomes == {"ok", "OSError"}

\* build_picking_xlsx and the download button that follows it
XlsxCall ==
    /\ hpc \in XlsxCalls
    /\ \E io \in WriteOutcomes :
          LET res == XlsxRender(rin, WithPageBreaks(hpc))
          IN  /\ rin' = TableAfterRender(rin)
              /\ IF io # "ok"
                 THEN /\ herr' = io
                      /\ hpc' = "raised"
                      /\ UNCHANGED <<files, sheets, exposed>>
                 ELSE /\ files' = IF res.written THEN files \cup {hpc} ELSE files
                      /\ IF res.err # ""
                         THEN /\ herr' = res.err
                              /\ hpc' = "raised"
                              /\ UNCHANGED <<sheets, exposed>>
                         ELSE /\ sheets' = Append(sheets,
                                               [name |-> hpc, pb |-> WithPageBreaks(hpc),
                                                nrows |-> res.nrows, breaks |-> res.breaks])
                              /\ exposed' = Offered(hpc)
                              /\ hpc' = NextCall(hpc, opts)
                              /\ UNCHANGED herr
    /\ UNCHANGED <<opts, docs>>
    /\ UNCHANGED <<pipe_vars, col_vars, docx_vars, cls_vars, aux_vars>>

\* build_picking_docx, lines 227..271: the required columns, then the groups
DocxStart ==
    /\ hpc \in DocxCalls
    /\ dpc = "idle"
    /\ IF RequiredMissing(rin) # {}
       THEN /\ herr' = "ValueError"
            /\ hpc' = "raised"
            /\ UNCHANGED <<dpc, groups>>
       ELSE /\ groups' = DocxGroups(rin.rows)
            /\ dpc' = IF DocxGroups(rin.rows) = <<>> THEN "save" ELSE "begin"
            /\ UNCHANGED <<herr, hpc>>
    /\ UNCHANGED <<opts, rin, files, exposed, sheets, docs>>
    /\ UNCHANGED <<gi, last_code, shade_on, doc>>
    /\ UNCHANGED <<pipe_vars, col_vars, cls_vars, aux_vars>>

\* lines 284..309: heading, table with its header row, shading state
DocxBeginBlock ==
    /\ dpc = "begin"
    /\ doc' = Append(doc, Heading(groups[gi + 1].addr))
    /\ last_code' = NoCode
    /\ shade_on' = ShadeAtBlockStart(shade_on)
    /\ dpc' = "rows"
    /\ UNCHANGED <<groups, gi>>
    /\ UNCHANGED <<handler_vars, pipe_vars, col_vars, cls_vars, aux_vars>>

\* lines 311..359: the rows of the block
DocxRows ==
    /\ dpc = "rows"
    /\ LET rendered == RenderRows(groups[gi + 1].rows, shade_on, last_code)
       IN  /\ doc' = Append(doc, TableOf(groups[gi + 1].addr, rendered))
           /\ shade_on' = rendered[Len(rendered)].shade_on
           /\ last_code' = rendered[Len(rendered)].last_code
    /\ rin' = TableAfterRender(rin)
    /\ dpc' = "sep"
    /\ UNCHANGED <<groups, gi>>
    /\ UNCHANGED <<opts, hpc, herr, files, exposed, sheets, docs>>
    /\ UNCHANGED <<pipe_vars, col_vars, cls_vars, aux_vars>>

\* lines 361..365: what separates the block from the next one
DocxSeparator ==
    /\ dpc = "sep"
    /\ doc' = IF NeedsSeparator(gi, Len(groups))
              THEN Append(doc, IF WithPageBreaks(hpc) THEN PageBreak ELSE BlankParagraph)
              ELSE doc
    /\ gi' = gi + 1
    /\ dpc' = IF gi + 1 < Len(groups) THEN "begin" ELSE "save"
    /\ UNCHANGED <<groups, last_code, shade_on>>
    /\ UNCHANGED <<handler_vars, pipe_vars, col_vars, cls_vars, aux_vars>>

\* line 367 and the download button that follows the call
DocxSave ==
    /\ dpc = "save"
    /\ \E io \in WriteOutcomes :
          IF io # "ok"
          THEN /\ herr' = io
               /\ hpc' = "raised"
               /\ UNCHANGED <<files, docs, exposed>>
          ELSE /\ files' = files \cup {hpc}
               /\ docs' = Append(docs, [name |-> hpc, pb |-> WithPageBreaks(hpc), body |-> doc])
               /\ exposed' = Offered(hpc)
               /\ hpc' = NextCall(hpc, opts)
               /\ UNCHANGED herr
    /\ dpc' = "idle"
    /\ groups' = <<>>
    /\ gi' = 0
    /\ last_code' = NoCode
    /\ shade_on' = FALSE
    /\ doc' = <<>>
    /\ UNCHANGED <<opts, rin, sheets>>
    /\ UNCHANGED <<pipe_vars, col_vars, cls_vars, aux_vars>>

\* lines 424, 475..477: an exception of the data build or of a renderer
\* leaves the "with" block and is shown by the handler
RunFailed ==
    /\ variant = "app"
    /\ \/ pc = "error" /\ hpc = "idle"
       \/ pc = "done" /\ hpc = "raised"
    /\ herr' = IF pc = "error" THEN err ELSE herr
    /\ files' = {}
    /\ hpc' = "error"
    /\ UNCHANGED <<opts, rin, exposed, sheets, docs>>
    /\ UNCHANGED <<pipe_vars, col_vars, docx_vars, cls_vars, aux_vars>>

\* lines 424, 475: leaving the "with" block removes the temporary directory
LeaveTempDir ==
    /\ hpc = "end"
    /\ files' = {}
    /\ hpc' = "finished"
    /\ UNCHANGED <<opts, herr, rin, exposed, sheets, docs>>
    /\ UNCHANGED <<pipe_vars, col_vars, docx_vars, cls_vars, aux_vars>>

\* pick.py, lines 81..137: the table is written and formatted in place, the
\* breaks are always set
PickSheet ==
    /\ pc = "done"
    /\ variant = "pick"
    /\ hpc = "idle"
    /\ LET t == [cols |-> need_keys, rows |-> df_final]
           res == XlsxRender(t, TRUE)
       IN  /\ rin' = TableAfterRender(t)
           /\ files' = {"pick"}
           /\ sheets' = <<[name |-> "pick", pb |-> TRUE, nrows |-> res.nrows,
                           breaks |-> res.breaks]>>
    /\ hpc' = "finished"
    /\ UNCHANGED <<opts, herr, exposed, docs>>
    /\ UNCHANGED <<pipe_vars, col_vars, docx_vars, cls_vars, aux_vars>>

(***************************************************************************)
(* Inputs of the renderers                                                 *)
(***************************************************************************)
\* the order rows the rendered tables are drawn from, in source order: five
\* rows of one address whose codes sort to 9, 9, 5, 5, 3; two rows of a second
\* address with one code, one of them a product named like the sentinel; a
\* row whose address differs from the first by a trailing space; a row of a
\* third address
RenderRowList ==
    << OrderRow(Num(9), Str("p"), Num(1), Str("Seoul")),
       OrderRow(Num(5), Str("p"), Num(1), Str("Seoul")),
       OrderRow(Num(9), Str("q"), Num(2), Str("Seoul")),
       OrderRow(Num(3), Str("p"), Num(1), Str("Seoul")),
       OrderRow(Num(5), Str("q"), Num(3), Str("Seoul")),
       OrderRow(Num(9), Str("p"), Num(2), Str("Busan")),
       OrderRow(Num(9), Str(TOTAL), Num(1), Str("Busan")),
       OrderRow(Num(5), Str("p"), Num(1), Str("Seoul ")),
       OrderRow(Num(5), Str("q"), Num(2), Str("Daegu")) >>

\* the rows of "rows" whose position is in S, in order
RECURSIVE PickRows(_, _, _)
PickRows(rows, S, i) ==
    IF i > Len(rows) THEN <<>>
    ELSE (IF i \in S THEN <<rows[i]>> ELSE <<>>) \o PickRows(rows, S, i + 1)

RenderTables == {PickRows(RenderRowList, S, 1) : S \in SUBSET (1..Len(RenderRowList))}

\* the options of the three checkboxes with which the handler goes on
OptionSets ==
    {o \in [xlsx : BOOLEAN, docx : BOOLEAN, nopb : BOOLEAN] : o.xlsx \/ o.docx}

\* a renderer called on its own: a two-group Output Table, whole or without
\* one of its columns
DirectRows ==
    LET g1 == <<RenderRowList[6]>>
        g2 == <<RenderRowList[1], RenderRowList[2]>>
    IN  g1 \o <<SubtotalRow(Str("Busan"), g1)>> \o g2 \o <<SubtotalRow(Str("Seoul"), g2)>>

DropColumn(cols, rows, c) ==
    [cols |-> SelectSeq(cols, LAMBDA f : f # c),
     rows |-> [i \in 1..Len(rows) |-> [f \in NeedKeySet \ {c} |-> rows[i][f]]]]

DirectTables ==
    {[cols |-> need_keys, rows |-> DirectRows]}
    \cup {DropColumn(need_keys, DirectRows, c) : c \in NeedKeySet}

\* a run of the handler (app.py) or of build_picking_sheet (pick.py), or a
\* renderer called on its own
InitRender ==
    /\ ColInit
    /\ ClassifyIdle
    /\ AuxIdle
    /\ \/ /\ variant \in {"app", "pick"}
          /\ colmap = DefaultColmap(variant)
          /\ \E t \in RenderTables :
                df = [ncols |-> SheetCols,
                      rows |-> [i \in 1..Len(t) |-> SheetRow(variant, t[i])]]
          /\ PipeStart
          /\ opts \in (IF variant = "app" THEN OptionSets ELSE {NoOpts})
          /\ hpc = "idle"
          /\ rin = NoTable
       \/ /\ PipeIdle
          /\ opts = NoOpts
          /\ hpc \in XlsxCalls \cup DocxCalls
          /\ rin \in DirectTables
    /\ herr = ""
    /\ files = {}
    /\ exposed = {}
    /\ sheets = <<>>
    /\ docs = <<>>
    /\ DocxIdle

NextRender ==
    \/ Project \/ Sort \/ GroupStep \/ Concat
    \/ StartRender \/ XlsxCall
    \/ DocxStart \/ DocxBeginBlock \/ DocxRows \/ DocxSeparator \/ DocxSave
    \/ LeaveTempDir \/ RunFailed \/ PickSheet

SpecRender == InitRender /\ [][NextRender]_vars

(***************************************************************************)
(* Properties of the document renderer                                     *)
(***************************************************************************)
\* the tables of a document body, in order
TablesOf(body) == SelectSeq(body, LAMBDA e : e.kind = "table")

\* the bodies rendered so far: those saved and the one under construction
Bodies == {docs[i].body : i \in 1..Len(docs)} \cup {doc}

C12_ShadingTogglesAtCodeChanges ==
    \A body \in Bodies :
        \A k \in 1..Len(TablesOf(body)) :
            LET rows == TablesOf(body)[k].rows
                order == SelectSeq(rows, LAMBDA x : IsOrderRow(x.src))
            IN  /\ \A i \in 1..(Len(rows) - 1) :
                      (/\ IsOrderRow(rows[i].src)
                       /\ IsOrderRow(rows[i + 1].src)
                       /\ rows[i].src.addr = rows[i + 1].src.addr)
                      => ((rows[i].shaded = rows[i + 1].shaded)
                             <=> (rows[i].src.code = rows[i + 1].src.code))
                /\ ([i \in 1..Len(order) |-> order[i].src.code]
                        = <<Num(9), Num(9), Num(5), Num(5), Num(3)>>
                    => [i \in 1..Len(order) |-> order[i].shaded]
                        = <<TRUE, TRUE, FALSE, FALSE, TRUE>>)

\* the loop state before row i of a block: what the row before left, or the
\* state set when the block was started
StateBefore(rows, i) ==
    IF i = 1 THEN [shade_on |-> FALSE, last_code |-> NoCode]
    ELSE [shade_on |-> rows[i - 1].shade_on, last_code |-> rows[i - 1].last_code]

\* C13: a Subtotal Row leaves the shading state and the last-seen code as
\* they were, is not shaded, has a blank address cell, and all its other
\* cells carry the larger (16pt) bold run.
C13_SubtotalRowRendering ==
    \A body \in Bodies :
        \A k \in 1..Len(TablesOf(body)) :
            LET rows == TablesOf(body)[k].rows
            IN  \A i \in 1..Len(rows) :
                    IsSubtotalRow(rows[i].src) =>
                        /\ rows[i].shade_on = StateBefore(rows, i).shade_on
                        /\ rows[i].last_code = StateBefore(rows, i).last_code
                        /\ ~rows[i].shaded
                        /\ rows[i].cells["addr"].text = ""
                        /\ \A col \in NeedKeySet \ {"addr"} :
                              /\ rows[i].cells[col].size = 16
                              /\ rows[i].cells[col].bold
                              /\ rows[i].cells[col].text = CellText(rows[i].src[col])
                        /\ \A j \in 1..Len(rows) :
                              IsOrderRow(rows[j].src) /\ ~rows[j].is_sum
                                  => \A col \in NeedKeySet : rows[j].cells[col].size < 16

\* a saved document in which a subtotal row follows a shaded order row
C13_Witness ==
    \E d \in 1..Len(docs) :
        \E k \in 1..Len(TablesOf(docs[d].body)) :
            LET rows == TablesOf(docs[d].body)[k].rows
            IN  \E i \in 2..Len(rows) :
                    /\ IsSubtotalRow(rows[i].src)
                    /\ rows[i - 1].shaded
                    /\ rows[i].shade_on
                    /\ ~rows[i].shaded
                    /\ rows[i].src.addr # Blank
                    /\ rows[i].cells["qty"].text = "3"

\* C14: a saved document has as many blocks as the Output Table has Subtotal
\* Rows, each block under its own heading, and every block holds exactly one
\* Subtotal Row, as its last row.
C14_OneBlockPerAddressGroup ==
    \A d \in 1..Len(docs) :
        LET body == docs[d].body
            tabs == TablesOf(body)
        IN  /\ Len(tabs) = Len(SelectSeq(rin.rows, IsSubtotalRow))
            /\ Len(SelectSeq(body, LAMBDA e : e.kind = "heading")) = Len(tabs)
            /\ \A k \in 1..Len(tabs) :
                  /\ Len(SelectSeq(tabs[k].rows, LAMBDA x : IsSubtotalRow(x.src))) = 1
                  /\ IsSubtotalRow(tabs[k].rows[Len(tabs[k].rows)].src)

(***************************************************************************)
(* Properties of the tabular renderer                                      *)
(***************************************************************************)
\* the sheet row of row i of the table (row 1 of the sheet is the header)
SheetRowOf(i) == i + 1

\* the sheet rows that hold the last row of an address group of t
GroupEnds(t) == {SheetRowOf(i) : i \in {j \in 1..Len(t) : IsRunEnd(t, j)}}

BreakSet(s) == {s.breaks[i] : i \in 1..Len(s.breaks)}

\* C15 as stated: with page breaks enabled a saved sheet has one row break
\* after the last row of every address group, the last group too, and no
\* other; with the flag disabled it has none.
C15_BreakAfterEveryGroup ==
    \A k \in 1..Len(sheets) :
        IF sheets[k].pb
        THEN /\ BreakSet(sheets[k]) = GroupEnds(rin.rows)
             /\ Len(sheets[k].breaks) = Cardinality(GroupEnds(rin.rows))
        ELSE sheets[k].breaks = <<>>

\* C15, amended: with page breaks enabled a saved sheet has one row break
\* after the last row of every address group but the last one, and no other;
\* with the flag disabled it has none.
C15_BreakBetweenGroups ==
    \A k \in 1..Len(sheets) :
        IF sheets[k].pb
        THEN /\ BreakSet(sheets[k]) = GroupEnds(rin.rows) \ {SheetRowOf(Len(rin.rows))}
             /\ Len(sheets[k].breaks) = Cardinality(GroupEnds(rin.rows)) - 1
             /\ \A i \in 1..Len(sheets[k].breaks) :
                   IsSubtotalRow(rin.rows[sheets[k].breaks[i] - 1])
        ELSE sheets[k].breaks = <<>>

\* both workbooks of a table with three address groups have been saved
C15_Witness ==
    /\ Len(sheets) = 2
    /\ sheets[1].pb
    /\ Len(sheets[1].breaks) = 2
    /\ sheets[1].nrows >= 6
    /\ ~sheets[2].pb
    /\ sheets[2].breaks = <<>>

Separators(body) == SelectSeq(body, LAMBDA e : e.kind \in {"pagebreak", "blank"})

\* C16: a saved document with g blocks is heading, table, then g - 1 times
\* separator, heading, table: one separator between consecutive blocks, none
\* before the first or after the last block; every separator is a page break
\* when page breaks are enabled and a blank paragraph when they are not.
C16_SeparatorsBetweenBlocks ==
    \A d \in 1..Len(docs) :
        LET body == docs[d].body
            g == Len(TablesOf(body))
        IN  /\ Len(Separators(body)) = (IF g <= 1 THEN 0 ELSE g - 1)
            /\ Len(body) = 2 * g + Len(Separators(body))
            /\ \A i \in 1..Len(body) :
                  body[i].kind = (IF i % 3 = 1 THEN "heading"
                                  ELSE IF i % 3 = 2 THEN "table"
                                  ELSE IF docs[d].pb THEN "pagebreak"
                                  ELSE "blank")

\* both documents of a table with three blocks have been saved
C16_Witness ==
    /\ Len(docs) = 2
    /\ docs[1].pb
    /\ Len(TablesOf(docs[1].body)) = 3
    /\ Len(SelectSeq(docs[1].body, LAMBDA e : e.kind = "pagebreak")) = 2
    /\ ~docs[2].pb
    /\ Len(SelectSeq(docs[2].body, LAMBDA e : e.kind = "blank")) = 2

(***************************************************************************)
(* Properties of both renderers                                            *)
(***************************************************************************)
\* C17: a renderer that was handed a table lacking a required column has
\* raised, and its destination file does not exist: nothing was written.
C17_MissingColumnFailsBeforeWriting ==
    (/\ rin # NoTable
     /\ RequiredMissing(rin) # {}
     /\ hpc \notin XlsxCalls \cup DocxCalls)
    => (hpc = "raised" /\ herr # "" /\ files = {})

\* C18: no renderer call, succeeding or failing, with or without page
\* breaks, changes the table it was handed, and from the moment the Output
\* Table is built every call of the run is handed that table, unchanged.
C18_RenderersLeaveTableAlone ==
    [][/\ (hpc \in XlsxCalls \cup DocxCalls => rin' = rin)
       /\ (pc = "done" =>
              /\ df_final' = df_final
              /\ (hpc' # "idle" => rin' = [cols |-> need_keys, rows |-> df_final]))]_vars

\* the four renderer calls of one run have been made on a table with subtotal
\* rows
C18_Witness ==
    /\ pc = "done"
    /\ hpc = "end"
    /\ Len(sheets) = 2
    /\ Len(docs) = 2
    /\ rin = [cols |-> need_keys, rows |-> df_final]
    /\ Len(SelectSeq(df_final, IsSubtotalRow)) >= 2

(***************************************************************************)
(* classify_orders of src/excel-converter/app_customizable.py and final.py *)
(* An order id is a sequence of code points; a dict is the sequence of its *)
(* items [key, val] in insertion order.                                    *)
(***************************************************************************)
\* number of digits of a smart-store order id
SsDigits == 16

OrdZero == 48
OrdNine == 57
OrdDash == 45
LO == <<Ord("L"), Ord("O")>>

\* "sub in s"
Contains(s, sub) ==
    \E i \in 1..(Len(s) - Len(sub) + 1) : SubSeq(s, i, i + Len(sub) - 1) = sub

IsDigit(ch) == ch \in OrdZero..OrdNine

\* a helper that removes nothing
digits_only_KeepAll(s) == s

\* re.sub(r"\D+", "", s)
digits_only(s) == SelectSeq(s, IsDigit)

\* the digit count is tested before the marker
Bucket_DigitsFirst(s) ==
    IF Len(digits_only(s)) = SsDigits THEN "ss"
    ELSE IF Contains(Upper(s), LO) THEN "lao"
    ELSE "none"

\* the if / elif of the loop body, on the stripped id
Bucket(s) ==
    IF Contains(Upper(s), LO) THEN "lao"
    ELSE IF Len(digits_only(s)) = SsDigits THEN "ss"
    ELSE "none"

\* d[k] = v
HasKey(d, k) == \E i \in 1..Len(d) : d[i].key = k
\* an assignment that adds an item even when the key is there
DictSet_AlwaysAppend(d, k, v) == Append(d, [key |-> k, val |-> v])

DictSet(d, k, v) ==
    IF HasKey(d, k)
    THEN [i \in 1..Len(d) |-> IF d[i].key = k THEN [key |-> k, val |-> v] ELSE d[i]]
    ELSE Append(d, [key |-> k, val |-> v])

\* one iteration of "for o, t in mapping.items()"
ClassifyStep ==
    /\ cpc = "loop"
    /\ ci < Len(mapping)
    /\ LET o == mapping[ci + 1].key
           t == mapping[ci + 1].val
           s == Strip(o)
       IN  /\ lao' = IF Bucket(s) = "lao" THEN DictSet(lao, s, t) ELSE lao
           /\ ss' = IF Bucket(s) = "ss" THEN DictSet(ss, s, t) ELSE ss
    /\ ci' = ci + 1
    /\ UNCHANGED <<mapping, cpc>>
    /\ UNCHANGED <<pipe_vars, col_vars, rend_vars, aux_vars>>

\* return lao, ss
ClassifyReturn ==
    /\ cpc = "loop"
    /\ ci = Len(mapping)
    /\ cpc' = "returned"
    /\ UNCHANGED <<mapping, ci, lao, ss>>
    /\ UNCHANGED <<pipe_vars, col_vars, rend_vars, aux_vars>>

(***************************************************************************)
(* Inputs of the classifier: the tracking map of build_order_tracking_map, *)
(* whose keys are non-empty texts, not stripped                            *)
(***************************************************************************)
\* most items of a tracking map
MaxIds == 2
\* most digits of an order id beyond SsDigits
MaxExtraDigits == 1

DigitCounts == {0} \cup ((SsDigits - 1)..(SsDigits + MaxExtraDigits))

\* n digits: 1, 2, ..., 9, 0, 1, ...
DigitRun(n) == [i \in 1..n |-> OrdZero + (i % 10)]

\* what comes before the digits of an id: nothing, the marker in upper and
\* in lower case, a letter and a dash
IdPrefixes == {<<>>, LO, <<Ord("L") + 32, Ord("O") + 32>>, <<OrdA, OrdDash>>}

OrderIds ==
    {lead \o prefix \o DigitRun(n) :
        lead \in {<<>>, <<OrdSpace>>}, prefix \in IdPrefixes, n \in DigitCounts} \ {<<>>}

\* the maps with distinct keys; the tracking number of the i-th item is the
\* text of i
TrackingMaps ==
    {m \in UNION {[1..n -> OrderIds] : n \in 0..MaxIds} :
        \A i, j \in 1..Len(m) : i # j => m[i] # m[j]}

InitClassify ==
    /\ ColInit
    /\ PipeIdle
    /\ RenderIdle
    /\ AuxIdle
    /\ \E m \in TrackingMaps :
          mapping = [i \in 1..Len(m) |-> [key |-> m[i], val |-> DecimalText(i)]]
    /\ ci = 0
    /\ cpc = "loop"
    /\ lao = <<>>
    /\ ss = <<>>

NextClassify == ClassifyStep \/ ClassifyReturn

SpecClassify == InitClassify /\ [][NextClassify]_vars

(***************************************************************************)
(* Properties of the classifier                                            *)
(***************************************************************************)
\* the ids visited so far
Visited == {mapping[i].key : i \in 1..ci}

\* C19: every visited order id that contains "LO" is a key of the lao dict
\* (as stripped text) and not of the ss dict, whatever its number of digits;
\* an id with "LO" and exactly 16 digits is no exception.
C19_MarkerGoesToLao ==
    \A o \in Visited :
        Contains(o, LO) => (HasKey(lao, Strip(o)) /\ ~HasKey(ss, Strip(o)))

\* an id with the marker and exactly 16 digits has been classified
C19_Witness ==
    /\ cpc = "returned"
    /\ \E o \in Visited :
          /\ Contains(o, LO)
          /\ Len(digits_only(o)) = SsDigits
          /\ HasKey(lao, Strip(o))
          /\ ss = <<>>

\* C20 as stated: every visited order id without the substring "LO" and with
\* exactly 16 digits is a key of the ss dict, and every key of the ss dict has
\* exactly 16 digits.
C20_SixteenDigitsGoToSs ==
    /\ \A o \in Visited :
          (~Contains(o, LO) /\ Len(digits_only(o)) = SsDigits) => HasKey(ss, Strip(o))
    /\ \A i \in 1..Len(ss) : Len(digits_only(ss[i].key)) = SsDigits

\* C20, amended: every visited order id that does not contain "LO" in any
\* letter case and has exactly 16 digits is a key of the ss dict and not of the
\* lao dict; every key of the ss dict has exactly 16 digits and does not
\* contain "LO" in any letter case.
C20_SixteenDigitsWithoutMarkerGoToSs ==
    /\ \A o \in Visited :
          (~Contains(Upper(o), LO) /\ Len(digits_only(o)) = SsDigits)
              => (HasKey(ss, Strip(o)) /\ ~HasKey(lao, Strip(o)))
    /\ \A i \in 1..Len(ss) :
          /\ Len(digits_only(ss[i].key)) = SsDigits
          /\ ~Contains(Upper(ss[i].key), LO)

\* an id of a letter, a dash and 16 digits went to the ss dict, and an id of
\* 17 digits went nowhere
C20_Witness ==
    /\ cpc = "returned"
    /\ \E o \in Visited :
          /\ Len(o) > SsDigits
          /\ Len(digits_only(o)) = SsDigits
          /\ HasKey(ss, Strip(o))
    /\ \E o \in Visited :
          /\ Len(digits_only(o)) = SsDigits + 1
          /\ ~HasKey(ss, Strip(o))
          /\ ~HasKey(lao, Strip(o))

\* the keys of a dict
Keys(d) == {d[i].key : i \in 1..Len(d)}

\* the tests of the loop body, on the id as the loop strips it
HasMarker(o) == Contains(Upper(Strip(o)), LO)
HasSsForm(o) == Len(digits_only(Strip(o))) = SsDigits

\* C21 as stated: when classify_orders has returned, every order id of the
\* tracking map is in exactly one of the buckets it returns, none is dropped,
\* and the bucket sizes sum to the number of order ids.
C21_TotalAndExclusive ==
    cpc = "returned" =>
        /\ \A o \in Visited : HasKey(lao, Strip(o)) # HasKey(ss, Strip(o))
        /\ Len(lao) + Len(ss) = Len(mapping)

\* C21, amended: classification is exclusive but not total.  An id is in at
\* most one of the two buckets, under its stripped text: in lao iff it has
\* the marker, in ss iff it has no marker and 16 digits, and in no bucket
\* otherwise (there is no fallback bucket); the buckets hold nothing else and
\* no key twice, so their sizes sum to the number of distinct stripped ids
\* that have the marker or the 16-digit form, which is at most the number of
\* order ids.
C21_ExclusiveNotTotal ==
    cpc = "returned" =>
        /\ \A o \in Visited :
              /\ HasKey(lao, Strip(o)) <=> HasMarker(o)
              /\ HasKey(ss, Strip(o)) <=> (~HasMarker(o) /\ HasSsForm(o))
        /\ Keys(lao) \cap Keys(ss) = {}
        /\ Keys(lao) \cup Keys(ss) \subseteq {Strip(o) : o \in Visited}
        /\ Len(lao) = Cardinality(Keys(lao))
        /\ Len(ss) = Cardinality(Keys(ss))
        /\ Len(lao) + Len(ss)
              = Cardinality({Strip(o) : o \in {x \in Visited : HasMarker(x) \/ HasSsForm(x)}})
        /\ Len(lao) + Len(ss) <= Len(mapping)

\* a map of two ids has been classified: one went to a bucket, the other,
\* with neither the marker nor 16 digits, to none
C21_Witness ==
    /\ cpc = "returned"
    /\ Len(mapping) = 2
    /\ Len(lao) + Len(ss) = 1
    /\ \E o \in Visited : ~HasMarker(o) /\ ~HasSsForm(o) /\ Len(digits_only(o)) > 0

(***************************************************************************)
(* Properties of the run handler of src/app.py                             *)
(***************************************************************************)
\* the artifacts whose renderer call has returned
Rendered == {sheets[i].name : i \in 1..Len(sheets)} \cup {docs[i].name : i \in 1..Len(docs)}

\* a step of a run of the handler has failed
StepFailed == variant = "app" /\ pc \in {"done", "error"} /\ hpc \in {"raised", "error"}

\* C22 as stated: when a step of a run has failed, no artifact of that run
\* has been offered for download.
C22_NothingExposedOnFailure ==
    StepFailed => exposed = {}

\* C22, amended: an artifact is offered for download as soon as, and only
\* after, its own renderer call has returned without error; what was offered
\* stays offered when a later step of the run fails, and the artifact of the
\* failed call is never offered.
C22_ExposedOncePerArtifactRendered ==
    /\ pc = "done" /\ variant = "app" => exposed = Rendered
    /\ pc # "done" => exposed = {}
    /\ hpc \in XlsxCalls \cup DocxCalls => hpc \notin exposed

\* the second or a later renderer call of a run failed after an earlier
\* artifact had been offered
C22_Witness ==
    /\ pc = "done"
    /\ hpc = "error"
    /\ herr = "OSError"
    /\ "xlsx" \in exposed
    /\ "docx" \notin exposed
    /\ opts.docx


(***************************************************************************)
(* Tracking reconciliation (src/excel-converter/app_customizable.py,       *)
(* "송장등록"; src/excel-converter/final.py differs in the carrier texts    *)
(* and in the fallback of the P column).                                   *)
(*                                                                         *)
(* A table is [state, cols, rows]: state "none" is None, "unreadable" a    *)
(* file pandas cannot read; cols names the columns the code looks for; a   *)
(* cell is the sequence of the code points of its text.                    *)
(***************************************************************************)

\* "nan"
NanText == <<110, 97, 110>>

\* str.lower
Lower(s) == [i \in 1..Len(s) |-> IF s[i] >= OrdA /\ s[i] <= OrdZ THEN s[i] + 32 ELSE s[i]]

\* s.where(s.str.lower() != "nan", "")
NanToEmpty(s) == IF Lower(s) = NanText THEN <<>> ELSE s

\* a test that takes every cell for an empty one
IsEmptyCell_Always(s) == TRUE
\* ser.str.lower().eq("nan") | ser.str.strip().eq("")
IsEmptyCell(s) == Lower(s) = NanText \/ Strip(s) = <<>>

\* d[k] of a key that is there
DictGet(d, k) == d[CHOOSE i \in 1..Len(d) : d[i].key = k].val

\* pd.DataFrame()
EmptyFrame == [state |-> "ok", cols |-> {}, rows |-> <<>>]

\* inv is None
IsNone(inv) == inv.state = "none"

\* inv.empty
IsEmptyFrame(inv) == inv.cols = {} \/ Len(inv.rows) = 0

RECURSIVE MapLoop(_, _, _)
\* "for o, t in zip(orders, tracks)" from row i on
MapLoop(rows, i, m) ==
    IF i > Len(rows) THEN m
    ELSE LET o == NanToEmpty(rows[i].order)
             t == NanToEmpty(rows[i].track)
         IN  MapLoop(rows, i + 1, IF o # <<>> /\ t # <<>> THEN DictSet(m, o, t) ELSE m)

\* find_col raises KeyError on one of the two headers
OrderTrackingMapRaises(inv) == ~({"order", "track"} \subseteq inv.cols)

build_order_tracking_map(inv) == MapLoop(inv.rows, 1, <<>>)

RECURSIVE ClassifyLoop(_, _, _, _)
\* the loop of classify_orders from item i on, for the dict of bucket b
ClassifyLoop(m, i, b, d) ==
    IF i > Len(m) THEN d
    ELSE LET s == Strip(m[i].key)
         IN  ClassifyLoop(m, i + 1, b, IF Bucket(s) = b THEN DictSet(d, s, m[i].val) ELSE d)

classify_orders(m) ==
    [lao |-> ClassifyLoop(m, 1, "lao", <<>>), ss |-> ClassifyLoop(m, 1, "ss", <<>>)]

\* "08"
CarrierCode == <<OrdZero, OrdZero + 8>>

LaoColumns == {"order", "carrier", "track"}

make_lao_invoice_df_fixed(lao_map) ==
    [state |-> "ok",
     cols  |-> LaoColumns,
     rows  |-> [i \in 1..Len(lao_map) |->
                   [order |-> lao_map[i].key, carrier |-> CarrierCode,
                    track |-> lao_map[i].val]]]

\* the default carrier text of the smart-store output
DefaultCarrier == <<Ord("L"), Ord("T")>>

\* find_col(SS_ORDER_KEYS, ss_df) raises KeyError
SsFilledRaises(ss_df) ==
    /\ ~IsNone(ss_df)
    /\ ~IsEmptyFrame(ss_df)
    /\ "order" \notin ss_df.cols

\* one row of the filled copy
SsFilledRow(ss_map, cols, r) ==
    LET existing == IF "track" \in cols THEN r.track ELSE <<>>
        mapped   == IF HasKey(ss_map, r.order) THEN DictGet(ss_map, r.order) ELSE <<>>
        carrier  == IF "carrier" \in cols /\ ~IsEmptyCell(r.carrier)
                    THEN r.carrier ELSE DefaultCarrier
    IN  [order   |-> r.order,
         track   |-> IF IsEmptyCell(existing) THEN mapped ELSE existing,
         carrier |-> carrier]

make_ss_filled_df(ss_map, ss_df) ==
    IF IsNone(ss_df) \/ IsEmptyFrame(ss_df)
    THEN IF ss_map = <<>> THEN EmptyFrame
         ELSE [state |-> "ok",
               cols  |-> {"order", "track", "carrier"},
               rows  |-> [i \in 1..Len(ss_map) |->
                             [order |-> ss_map[i].key, track |-> ss_map[i].val,
                              carrier |-> DefaultCarrier]]]
    ELSE [state |-> "ok",
          cols  |-> ss_df.cols \cup {"track", "carrier"},
          rows  |-> [i \in 1..Len(ss_df.rows) |->
                        SsFilledRow(ss_map, ss_df.cols, ss_df.rows[i])]]

RECURSIVE InvMapLoop(_, _, _)
\* the loop of build_inv_map_from_P from row i on
InvMapLoop(rows, i, m) ==
    IF i > Len(rows) THEN m
    ELSE LET key == digits_only(NanToEmpty(rows[i].p))
             t   == NanToEmpty(rows[i].track)
         IN  InvMapLoop(rows, i + 1, IF key # <<>> /\ t # <<>> THEN DictSet(m, key, t) ELSE m)

\* no sixteenth column (RuntimeError) or no tracking header (KeyError)
InvMapRaises(inv) == ~({"P", "track"} \subseteq inv.cols)

build_inv_map_from_P(inv) == InvMapLoop(inv.rows, 1, <<>>)

\* build_inv_map_from_P raises, or there is no third column (RuntimeError)
CpFilledRaises(inv, cp_df) ==
    /\ ~(IsNone(cp_df) \/ IsEmptyFrame(cp_df))
    /\ ~(IsNone(inv) \/ IsEmptyFrame(inv))
    /\ (InvMapRaises(inv) \/ "C" \notin cp_df.cols)

\* the supplied table after the call: the cells are written on copies
CpArgAfter_Written(inv_map, cp_df) ==
    [cp_df EXCEPT !.rows = [i \in 1..Len(cp_df.rows) |->
        LET key == digits_only(cp_df.rows[i].order)
        IN  IF HasKey(inv_map, key)
            THEN [cp_df.rows[i] EXCEPT !.track = DictGet(inv_map, key)]
            ELSE cp_df.rows[i]]]
CpArgAfter(inv_map, cp_df) == cp_df

\* one row of the filled copy; the tracking cell is that of column E, or of
\* the column named "운송장 번호" when the table has fewer than five columns
CpFilledRow(inv_map, cols, r) ==
    LET key     == digits_only(r.order)
        present == "E" \in cols \/ "named" \in cols
        mask    == HasKey(inv_map, key) /\ Len(DictGet(inv_map, key)) > 0
    IN  [order |-> r.order,
         track |-> IF mask THEN DictGet(inv_map, key)
                   ELSE IF present THEN r.track ELSE <<>>]

make_cp_filled_df_by_letters(inv, cp_df) ==
    IF IsNone(cp_df) \/ IsEmptyFrame(cp_df) THEN EmptyFrame
    ELSE IF IsNone(inv) \/ IsEmptyFrame(inv) THEN cp_df
    ELSE [state |-> "ok",
          cols  |-> IF "E" \in cp_df.cols THEN cp_df.cols ELSE cp_df.cols \cup {"named"},
          rows  |-> [i \in 1..Len(cp_df.rows) |->
                        CpFilledRow(build_inv_map_from_P(inv), cp_df.cols, cp_df.rows[i])]]


(***************************************************************************)
(* The run_invoice handler, one action per step of the script              *)
(***************************************************************************)

Report(kind, what) == [kind |-> kind, what |-> what]

\* "if not invoice_file" and step 1, reading the tracking file
ReadInvoice ==
    /\ ipc = "clicked"
    /\ IF inv_file.state = "none"
       THEN /\ reports' = Append(reports, Report("error", "no_invoice_file"))
            /\ ipc' = "end"
            /\ UNCHANGED df_invoice
       ELSE /\ IF inv_file.state = "unreadable"
               THEN /\ reports' = Append(reports, Report("exception", "read_invoice"))
                    /\ df_invoice' = NoFile
               ELSE /\ df_invoice' = inv_file
                    /\ UNCHANGED reports
            /\ ipc' = "read_ss"
    /\ UNCHANGED <<inv_file, ss_file, cp_file, df_ss_orders, df_cp_orders,
                   lao_out, ss_out, cp_out, downloads>>
    /\ UNCHANGED <<pipe_vars, col_vars, rend_vars, cls_vars, map_vars, batch_vars>>

\* step 2, the optional smart-store order file
ReadSsOrders ==
    /\ ipc = "read_ss"
    /\ IF ss_file.state = "none"
       THEN UNCHANGED <<df_ss_orders, reports>>
       ELSE IF ss_file.state = "unreadable"
       THEN /\ reports' = Append(reports, Report("warning", "read_ss_orders"))
            /\ df_ss_orders' = NoFile
       ELSE /\ df_ss_orders' = ss_file
            /\ UNCHANGED reports
    /\ ipc' = "read_cp"
    /\ UNCHANGED <<inv_file, ss_file, cp_file, df_invoice, df_cp_orders,
                   lao_out, ss_out, cp_out, downloads>>
    /\ UNCHANGED <<pipe_vars, col_vars, rend_vars, cls_vars, map_vars, batch_vars>>

\* step 2, the optional Coupang order file
ReadCpOrders ==
    /\ ipc = "read_cp"
    /\ IF cp_file.state = "none"
       THEN UNCHANGED <<df_cp_orders, reports>>
       ELSE IF cp_file.state = "unreadable"
       THEN /\ reports' = Append(reports, Report("warning", "read_cp_orders"))
            /\ df_cp_orders' = NoFile
       ELSE /\ df_cp_orders' = cp_file
            /\ UNCHANGED reports
    /\ ipc' = "process"
    /\ UNCHANGED <<inv_file, ss_file, cp_file, df_invoice, df_ss_orders,
                   lao_out, ss_out, cp_out, downloads>>
    /\ UNCHANGED <<pipe_vars, col_vars, rend_vars, cls_vars, map_vars, batch_vars>>

\* where the handler goes on after reporting that the tracking file was not
\* read, or after "except Exception" of step 3: past the exports
AfterFailure_Exports == "export_lao"
AfterFailure == "end"

\* one of the calls of step 3 raises
ProcessRaises ==
    \/ OrderTrackingMapRaises(df_invoice)
    \/ SsFilledRaises(df_ss_orders)
    \/ CpFilledRaises(df_invoice, df_cp_orders)

\* step 3 up to the previews
Process ==
    /\ ipc = "process"
    /\ IF IsNone(df_invoice)
       THEN /\ reports' = Append(reports, Report("error", "invoice_not_read"))
            /\ ipc' = AfterFailure
            /\ UNCHANGED <<df_cp_orders, lao_out, ss_out, cp_out>>
       ELSE IF ProcessRaises
       THEN /\ reports' = Append(reports, Report("exception", "process"))
            /\ ipc' = AfterFailure
            /\ UNCHANGED <<df_cp_orders, lao_out, ss_out, cp_out>>
       ELSE LET maps == classify_orders(build_order_tracking_map(df_invoice))
            IN  /\ lao_out' = make_lao_invoice_df_fixed(maps.lao)
                /\ ss_out' = make_ss_filled_df(maps.ss, df_ss_orders)
                /\ cp_out' = make_cp_filled_df_by_letters(df_invoice, df_cp_orders)
                /\ df_cp_orders' =
                      IF IsNone(df_cp_orders) \/ IsEmptyFrame(df_cp_orders)
                         \/ IsEmptyFrame(df_invoice)
                      THEN df_cp_orders
                      ELSE CpArgAfter(build_inv_map_from_P(df_invoice), df_cp_orders)
                /\ reports' = Append(reports, Report("success", "classified"))
                /\ ipc' = "export_lao"
    /\ UNCHANGED <<inv_file, ss_file, cp_file, df_invoice, df_ss_orders, downloads>>
    /\ UNCHANGED <<pipe_vars, col_vars, rend_vars, cls_vars, map_vars, batch_vars>>

\* the lao workbook and its download button
ExportLao ==
    /\ ipc = "export_lao"
    /\ downloads' = Append(downloads, "lao")
    /\ ipc' = "export_ss"
    /\ UNCHANGED <<inv_file, ss_file, cp_file, reports, df_invoice, df_ss_orders,
                   df_cp_orders, lao_out, ss_out, cp_out>>
    /\ UNCHANGED <<pipe_vars, col_vars, rend_vars, cls_vars, map_vars, batch_vars>>

\* the smart-store workbook and its download button
ExportSs ==
    /\ ipc = "export_ss"
    /\ downloads' = IF IsEmptyFrame(ss_out) THEN downloads ELSE Append(downloads, "ss")
    /\ ipc' = "export_cp"
    /\ UNCHANGED <<inv_file, ss_file, cp_file, reports, df_invoice, df_ss_orders,
                   df_cp_orders, lao_out, ss_out, cp_out>>
    /\ UNCHANGED <<pipe_vars, col_vars, rend_vars, cls_vars, map_vars, batch_vars>>

\* the Coupang workbook, its download button and the closing notice
ExportCp ==
    /\ ipc = "export_cp"
    /\ downloads' = IF IsEmptyFrame(cp_out) THEN downloads ELSE Append(downloads, "cp")
    /\ reports' = IF IsEmptyFrame(ss_out) /\ IsEmptyFrame(cp_out)
                  THEN Append(reports, Report("info", "nothing_to_do"))
                  ELSE reports
    /\ ipc' = "end"
    /\ UNCHANGED <<inv_file, ss_file, cp_file, df_invoice, df_ss_orders,
                   df_cp_orders, lao_out, ss_out, cp_out>>
    /\ UNCHANGED <<pipe_vars, col_vars, rend_vars, cls_vars, map_vars, batch_vars>>

(***************************************************************************)
(* Inputs of the handler                                                   *)
(***************************************************************************)

\* most rows of a tracking file
MaxInvRows == 3

\* most rows of an order file
MaxOrderRows == 2

Unreadable == [state |-> "unreadable", cols |-> {}, rows |-> <<>>]

LO1 == LO \o <<OrdZero + 1>>
LO2 == LO \o <<OrdZero + 2>>
SpLO1 == <<OrdSpace>> \o LO1
S16 == DigitRun(SsDigits)
SpS16 == <<OrdSpace>> \o S16
DashS16 == <<OrdA, OrdDash>> \o S16
D123 == <<OrdZero + 1, OrdZero + 2, OrdZero + 3>>
D1Dash23 == <<OrdZero + 1, OrdDash, OrdZero + 2, OrdZero + 3>>
D45 == <<OrdZero + 4, OrdZero + 5>>
NoDigits == <<OrdA + 23>>
\* a tracking number already in an order file
Existing == <<OrdA + 4, OrdZero + 9>>
\* a carrier already in an order file
OtherCarrier == <<OrdA + 10>>

\* the tracking number of row i of a tracking file
TrackOf(i) == <<OrdZero + i>>

InvoiceCols == {"A", "order", "track", "P"}

InvoiceRow(o, t) == [order |-> o, p |-> o, track |-> t]

InvoiceTable(ids, has) ==
    [state |-> "ok",
     cols  |-> InvoiceCols,
     rows  |-> [i \in 1..Len(ids) |->
                   InvoiceRow(ids[i], IF has[i] THEN TrackOf(i) ELSE <<>>)]]

LaoIds == {<<>>, NanText, LO1, SpLO1, LO2, S16}

\* tracking files of last-order ids, every row with or without a tracking
\* number
LaoInvoices(most) ==
    UNION {{InvoiceTable(ids, has) : ids \in [1..n -> LaoIds], has \in [1..n -> BOOLEAN]} :
           n \in 0..most}

SsInvoices ==
    {InvoiceTable(<<>>, <<>>),
     InvoiceTable(<<S16>>, <<TRUE>>),
     InvoiceTable(<<S16, DashS16>>, <<TRUE, TRUE>>),
     InvoiceTable(<<LO1, SpS16>>, <<TRUE, TRUE>>)}

SsRow(o, t, c) == [order |-> o, track |-> t, carrier |-> c]

SsRowUniverse ==
    {SsRow(o, t, <<>>) : o \in {S16, SpS16, DashS16}, t \in {<<>>, <<OrdSpace>>, Existing}}
    \cup {SsRow(S16, NanText, OtherCarrier), SsRow(S16, <<>>, OtherCarrier)}

SsBareRows == {SsRow(o, <<>>, <<>>) : o \in {S16, SpS16, DashS16}}

RowLists(universe, n) == UNION {[1..k -> universe] : k \in 0..n}

SsOrderTables ==
    {[state |-> "ok", cols |-> {"A", "order", "track", "carrier"}, rows |-> rs] :
        rs \in RowLists(SsRowUniverse, MaxOrderRows)}
    \cup {[state |-> "ok", cols |-> {"A", "order"}, rows |-> rs] :
        rs \in RowLists(SsBareRows, MaxOrderRows)}

CpInvoices ==
    {InvoiceTable(<<>>, <<>>),
     InvoiceTable(<<D123>>, <<TRUE>>),
     InvoiceTable(<<D1Dash23, D123>>, <<TRUE, TRUE>>),
     InvoiceTable(<<D123, D45>>, <<FALSE, TRUE>>),
     InvoiceTable(<<NoDigits, NanText>>, <<TRUE, TRUE>>)}

CpRow(o, t) == [order |-> o, track |-> t]

CpRowUniverse == {CpRow(o, t) : o \in {D123, D1Dash23, D45, NoDigits}, t \in {<<>>, Existing}}

CpBareRows == {CpRow(o, <<>>) : o \in {D123, D1Dash23, D45, NoDigits}}

CpOrderTables ==
    {[state |-> "ok", cols |-> cs, rows |-> rs] :
        cs \in {{"A", "C", "E"}, {"A", "C", "named"}},
        rs \in RowLists(CpRowUniverse, MaxOrderRows)}
    \cup {[state |-> "ok", cols |-> {"A", "C"}, rows |-> rs] :
        rs \in RowLists(CpBareRows, MaxOrderRows)}

\* files that make a step fail: no file, an unreadable one, a good one, one
\* without a column the code looks for
FailingInvoices ==
    {NoFile, Unreadable, InvoiceTable(<<LO1, S16, D123>>, <<TRUE, TRUE, TRUE>>),
     [InvoiceTable(<<LO1>>, <<TRUE>>) EXCEPT !.cols = {"A", "order"}],
     [InvoiceTable(<<LO1>>, <<TRUE>>) EXCEPT !.cols = {"A", "track", "P"}],
     [InvoiceTable(<<D123>>, <<TRUE>>) EXCEPT !.cols = {"A", "order", "track"}]}

FailingSsOrders ==
    {NoFile, Unreadable,
     [state |-> "ok", cols |-> {"A", "order"}, rows |-> <<SsRow(S16, <<>>, <<>>)>>],
     [state |-> "ok", cols |-> {"A"}, rows |-> <<SsRow(<<>>, <<>>, <<>>)>>]}

FailingCpOrders ==
    {NoFile, Unreadable,
     [state |-> "ok", cols |-> {"A", "C", "E"}, rows |-> <<CpRow(D123, <<>>)>>],
     [state |-> "ok", cols |-> {"A"}, rows |-> <<CpRow(<<>>, <<>>)>>]}

InvoiceInputs ==
    \/ inv_file \in LaoInvoices(MaxInvRows) /\ ss_file = NoFile /\ cp_file = NoFile
    \/ inv_file \in SsInvoices /\ ss_file \in SsOrderTables /\ cp_file = NoFile
    \/ inv_file \in CpInvoices /\ ss_file = NoFile /\ cp_file \in CpOrderTables
    \/ inv_file \in FailingInvoices /\ ss_file \in FailingSsOrders
       /\ cp_file \in FailingCpOrders

InitInvoice ==
    /\ ColInit
    /\ PipeIdle
    /\ RenderIdle
    /\ ClassifyIdle
    /\ MappingIdle
    /\ BatchIdle
    /\ InvoiceInputs
    /\ ipc = "clicked"
    /\ reports = <<>>
    /\ df_invoice = NoFile
    /\ df_ss_orders = NoFile
    /\ df_cp_orders = NoFile
    /\ lao_out = NoFile
    /\ ss_out = NoFile
    /\ cp_out = NoFile
    /\ downloads = <<>>

NextInvoice ==
    ReadInvoice \/ ReadSsOrders \/ ReadCpOrders \/ Process \/ ExportLao \/ ExportSs
    \/ ExportCp

SpecInvoice == InitInvoice /\ [][NextInvoice]_vars


(***************************************************************************)
(* Properties of the run_invoice handler                                   *)
(***************************************************************************)

Reported(kinds) == \E i \in 1..Len(reports) : reports[i].kind \in kinds

Warned(what) == \E i \in 1..Len(reports) : reports[i] = Report("warning", what)

Processed == lao_out # NoFile

\* the rows of the tracking file that hold a last-order id and a tracking
\* number, neither of them empty
LaoOccurrences ==
    {i \in 1..Len(inv_file.rows) :
        /\ inv_file.rows[i].order # <<>>
        /\ inv_file.rows[i].track # <<>>
        /\ HasMarker(inv_file.rows[i].order)}

\* the trimmed ids of these rows
LaoTrimmedIds == {Strip(inv_file.rows[i].order) : i \in LaoOccurrences}

OccurrencesOf(id) == {i \in LaoOccurrences : Strip(inv_file.rows[i].order) = id}

FirstOccurrence(id) == CHOOSE i \in OccurrencesOf(id) : \A j \in OccurrencesOf(id) : i <= j

LastOccurrence(id) == CHOOSE i \in OccurrencesOf(id) : \A j \in OccurrencesOf(id) : i >= j

\* exactly one row per distinct trimmed id
C24_OneRowPerId ==
    Processed =>
        /\ {lao_out.rows[j].order : j \in 1..Len(lao_out.rows)} = LaoTrimmedIds
        /\ Len(lao_out.rows) = Cardinality(LaoTrimmedIds)

\* rows in order of first appearance
C24_FirstAppearanceOrder ==
    Processed /\ C24_OneRowPerId =>
        \A j, k \in 1..Len(lao_out.rows) :
            j < k => FirstOccurrence(lao_out.rows[j].order)
                        < FirstOccurrence(lao_out.rows[k].order)

\* the same carrier code in every row
C24_ConstantCarrier ==
    Processed => \A j \in 1..Len(lao_out.rows) : lao_out.rows[j].carrier = CarrierCode

\* the tracking number of the last occurrence
C24_LastOccurrenceWins ==
    Processed /\ C24_OneRowPerId =>
        \A j \in 1..Len(lao_out.rows) :
            lao_out.rows[j].track = inv_file.rows[LastOccurrence(lao_out.rows[j].order)].track

\* C24: the lao table has the three fixed columns and exactly one row per
\* distinct trimmed last-order id that occurs in the tracking file with a
\* non-empty id and a non-empty tracking number, in order of the id's first
\* appearance, every row with the same carrier code and with the tracking
\* number of the id's last occurrence.
C24_LaoTableFollowsTrackingFile ==
    /\ Processed => lao_out.cols = LaoColumns
    /\ C24_OneRowPerId
    /\ C24_FirstAppearanceOrder
    /\ C24_ConstantCarrier
    /\ C24_LastOccurrenceWins


\* the rows of the tracking file whose order number has the digits of the
\* order number of row i of the Coupang order file, and a tracking number
CpMatches(i) ==
    {k \in 1..Len(inv_file.rows) :
        /\ digits_only(cp_file.rows[i].order) # <<>>
        /\ digits_only(inv_file.rows[k].p) = digits_only(cp_file.rows[i].order)
        /\ NanToEmpty(inv_file.rows[k].track) # <<>>}

\* the tracking cell of row i as supplied
CpSuppliedTrack(i) ==
    IF "E" \in cp_file.cols \/ "named" \in cp_file.cols THEN cp_file.rows[i].track ELSE <<>>

\* C25: when the tables are computed for a supplied Coupang order file, the
\* output has the rows of the file in their order with the order number
\* unchanged; the tracking cell of a row whose digits-only order number is
\* non-empty and equals that of a tracking-file row with a tracking number
\* holds such a row's tracking number, every other tracking cell is as
\* supplied; the table read from the file is not changed by the call.
C25_CoupangDigitsOnlyMatch ==
    Processed /\ cp_file.state = "ok" =>
        /\ Len(cp_out.rows) = Len(cp_file.rows)
        /\ \A i \in 1..Len(cp_file.rows) :
              /\ cp_out.rows[i].order = cp_file.rows[i].order
              /\ CpMatches(i) # {} =>
                    cp_out.rows[i].track \in {inv_file.rows[k].track : k \in CpMatches(i)}
              /\ CpMatches(i) = {} => cp_out.rows[i].track = CpSuppliedTrack(i)
        /\ df_cp_orders = cp_file

\* a file whose first row is matched by digits only, "1-23" against "123",
\* and had a tracking number, and whose second row matches nothing
C25_Witness ==
    /\ Processed
    /\ cp_file.state = "ok"
    /\ Len(cp_file.rows) = 2
    /\ cp_file.rows[1].order = D1Dash23
    /\ cp_file.rows[1].track = Existing
    /\ \E k \in CpMatches(1) : inv_file.rows[k].p = D123
    /\ cp_out.rows[1].track # Existing
    /\ CpMatches(2) = {}
    /\ cp_file.rows[2].track = Existing


\* the smart-store bucket of the run
SsBucket == classify_orders(build_order_tracking_map(inv_file)).ss

\* the tracking cell of row i of the supplied smart-store order file
SsSuppliedTrack(i) == IF "track" \in ss_file.cols THEN ss_file.rows[i].track ELSE <<>>

\* an empty or blank cell: no text, white space only, or the text pandas
\* gives a missing value
BlankCell(t) == Strip(t) = <<>> \/ Lower(t) = NanText

\* what the claim says of row i
SsRowAsClaimed(i) ==
    /\ ss_out.rows[i].order = ss_file.rows[i].order
    /\ ~BlankCell(SsSuppliedTrack(i)) => ss_out.rows[i].track = SsSuppliedTrack(i)
    /\ BlankCell(SsSuppliedTrack(i)) =>
          ss_out.rows[i].track =
              IF ss_file.rows[i].order \in Keys(SsBucket)
              THEN DictGet(SsBucket, ss_file.rows[i].order)
              ELSE <<>>

\* C26 as stated: for every supplied smart-store order file the output has
\* the rows of the file, in order, a non-blank tracking cell unchanged and a
\* blank one holding the bucket's tracking number of the equal id, or nothing.
C26_SuppliedFileRowsKept ==
    Processed /\ ss_file.state = "ok" =>
        /\ Len(ss_out.rows) = Len(ss_file.rows)
        /\ \A i \in 1..Len(ss_out.rows) : SsRowAsClaimed(i)

\* C26: the same for a supplied order file that has at least one row; a
\* supplied file without rows is treated as no file, and the output is the
\* table of the bucket, one row per id.
C26_NonEmptySuppliedFileRowsKept ==
    Processed /\ ss_file.state = "ok" =>
        IF Len(ss_file.rows) > 0
        THEN /\ Len(ss_out.rows) = Len(ss_file.rows)
             /\ \A i \in 1..Len(ss_out.rows) : SsRowAsClaimed(i)
        ELSE /\ Len(ss_out.rows) = Len(SsBucket)
             /\ \A i \in 1..Len(ss_out.rows) :
                   /\ ss_out.rows[i].order = SsBucket[i].key
                   /\ ss_out.rows[i].track = SsBucket[i].val

\* a file with a row that has a tracking number and a blank row, both of an
\* id of the bucket: the first is kept, the second is filled
C26_Witness ==
    /\ Processed
    /\ ss_file.state = "ok"
    /\ Len(ss_file.rows) = 2
    /\ "track" \in ss_file.cols
    /\ ss_file.rows[1].track = Existing
    /\ ss_file.rows[1].order \in Keys(SsBucket)
    /\ ss_out.rows[1].track = Existing
    /\ ss_file.rows[2].track = <<OrdSpace>>
    /\ ss_file.rows[2].order \in Keys(SsBucket)
    /\ ss_out.rows[2].track = TrackOf(1)


(***************************************************************************)
(* Subtotal rows in the document renderer                                  *)
(***************************************************************************)

\* C27: in every block the renderer has written, a row is rendered as a
\* subtotal row (not shaded, address cell blanked, shading state and
\* last-seen code left as they were) if and only if it is a synthetic
\* Subtotal Row of the engine; an order row never is, whatever its product.
C27_SubtotalIffSynthetic ==
    \A body \in Bodies :
        \A k \in 1..Len(TablesOf(body)) :
            LET rows == TablesOf(body)[k].rows
            IN  \A i \in 1..Len(rows) :
                    /\ rows[i].is_sum <=> IsSubtotalRow(rows[i].src)
                    /\ IsOrderRow(rows[i].src) =>
                          rows[i].cells["addr"].text = CellText(rows[i].src.addr)


(***************************************************************************)
(* Batch conversion (src/excel-converter/app_customizable.py, section 5)   *)
(*                                                                         *)
(* An uploaded file is [name, fault, signals, width, ss_cols]: fault       *)
(* "read" is a file pandas cannot read and "write" a table openpyxl cannot *)
(* write; signals names the platforms whose header signals the first row   *)
(* holds; width is the number of columns; ss_cols says whether every       *)
(* keyword column of the smart-store converter is found.                   *)
(***************************************************************************)

DefaultTemplateColumns == {"order", "name", "addr", "phone", "product", "qty", "memo"}

Col1(a) == <<Ord(a)>>
Col2(a, b) == <<Ord(a), Ord(b)>>

DEFAULT_MAPPING ==
    [k \in DefaultTemplateColumns |->
        CASE k = "order" -> Col1("A")
          [] k = "name" -> Col1("I")
          [] k = "addr" -> Col1("L")
          [] k = "phone" -> Col1("J")
          [] k = "product" -> Col1("D")
          [] k = "qty" -> Col1("G")
          [] k = "memo" -> Col1("M")]

\* the letters of COUPANG_MAPPING
CoupangLetters ==
    {Col1("C"), Col2("A", "A"), Col2("A", "D"), Col2("A", "B"), Col1("P"), Col1("W"),
     Col2("A", "E")}

\* the letters of TTARIMALL_FIXED_LETTER_MAPPING, and S
TtarimallLetters ==
    {Col1("H"), Col2("A", "B"), Col2("A", "E"), Col2("A", "C"), Col1("V"), Col1("S"),
     Col1("Y"), Col2("A", "A")}

detect_platform_by_headers(f) ==
    IF "tm" \in f.signals THEN "TTARIMALL"
    ELSE IF "ss" \in f.signals THEN "SMARTSTORE"
    ELSE IF "cp" \in f.signals THEN "COUPANG"
    ELSE "LAORA"

\* a fixed letter names a column the source does not have (IndexError)
LettersRaise(letters, width) == \E l \in letters : excel_col_to_index(l).v >= width

\* convert_laora raises: no mapping (RuntimeError), a text that is no column
\* name (ValueError), a column the source does not have (IndexError)
convert_laora_raises(f, sm) ==
    \/ ~sm.set
    \/ DOMAIN sm.m = {}
    \/ \E k \in DOMAIN sm.m :
          /\ sm.m[k] # <<>>
          /\ \/ excel_col_to_index(sm.m[k]).err # ""
             \/ excel_col_to_index(sm.m[k]).v >= f.width

\* the converter of the platform, post_numeric_alignment or the workbook
\* writer raises
ConvertRaises(f, platform, sm) ==
    \/ platform = "TTARIMALL" /\ LettersRaise(TtarimallLetters, f.width)
    \/ platform = "SMARTSTORE" /\ ~f.ss_cols
    \/ platform = "COUPANG" /\ LettersRaise(CoupangLetters, f.width)
    \/ platform = "LAORA" /\ convert_laora_raises(f, sm)
    \/ f.fault = "write"

LogLine(tag, i, name) == [tag |-> tag, file |-> i, name |-> name]

Workbook(i, name, platform) ==
    [kind |-> "workbook", file |-> i, name |-> name, platform |-> platform]

LogFile == [kind |-> "log", file |-> 0, name |-> "batch_convert_log.txt", platform |-> ""]

\* the checks before the loop
BatchStart ==
    /\ bpc = "clicked"
    /\ bpc' = IF batch_files = <<>> \/ template_columns = {} THEN "error" ELSE "loop"
    /\ UNCHANGED <<batch_files, bi, logs, zip_entries, batch_download>>
    /\ UNCHANGED <<pipe_vars, col_vars, rend_vars, cls_vars, inv_vars, map_vars>>

\* the loop goes on with the next file after a failure
AfterFailedFile_Break(i, n) == n
AfterFailedFile(i, n) == i + 1

\* the body of "for f in batch_files" for one file
BatchFile ==
    /\ bpc = "loop"
    /\ bi < Len(batch_files)
    /\ LET i == bi + 1
           f == batch_files[i]
           platform == detect_platform_by_headers(f)
       IN  IF f.fault = "read"
           THEN /\ logs' = Append(logs, LogLine("FAIL", i, f.name))
                /\ bi' = AfterFailedFile(bi, Len(batch_files))
                /\ UNCHANGED zip_entries
           ELSE IF ConvertRaises(f, platform, session_mapping)
           THEN /\ logs' = Append(logs, LogLine("FAIL", i, f.name))
                /\ bi' = AfterFailedFile(bi, Len(batch_files))
                /\ UNCHANGED zip_entries
           ELSE /\ zip_entries' = Append(zip_entries, Workbook(i, f.name, platform))
                /\ logs' = Append(logs, LogLine("OK", i, f.name))
                /\ bi' = bi + 1
    /\ UNCHANGED <<batch_files, bpc, batch_download>>
    /\ UNCHANGED <<pipe_vars, col_vars, rend_vars, cls_vars, inv_vars, map_vars>>

\* the log file, the end of the "with" block and the download button
BatchFinish ==
    /\ bpc = "loop"
    /\ bi = Len(batch_files)
    /\ zip_entries' = Append(zip_entries, LogFile)
    /\ batch_download' = zip_entries'
    /\ bpc' = "end"
    /\ UNCHANGED <<batch_files, bi, logs>>
    /\ UNCHANGED <<pipe_vars, col_vars, rend_vars, cls_vars, inv_vars, map_vars>>

(***************************************************************************)
(* Inputs of the batch handler                                             *)
(***************************************************************************)

\* most uploaded files
MaxBatch == 3

\* a source as wide as the default mapping needs, and one as wide as the
\* fixed mappings need
NarrowWidth == 13
WideWidth == 31

UploadedFile(name, fault, signals, width, ss_cols) ==
    [name |-> name, fault |-> fault, signals |-> signals, width |-> width,
     ss_cols |-> ss_cols]

BatchUniverse ==
    {UploadedFile("a", "read", {}, 0, FALSE),
     UploadedFile("a", "none", {}, NarrowWidth, FALSE),
     UploadedFile("b", "none", {}, 1, FALSE),
     UploadedFile("a", "none", {"tm"}, WideWidth, FALSE),
     UploadedFile("b", "none", {"tm"}, NarrowWidth, FALSE),
     UploadedFile("a", "none", {"ss"}, NarrowWidth, TRUE),
     UploadedFile("b", "none", {"ss"}, NarrowWidth, FALSE),
     UploadedFile("a", "none", {"cp"}, WideWidth, FALSE),
     UploadedFile("b", "none", {"cp"}, NarrowWidth, FALSE),
     UploadedFile("b", "none", {"tm", "ss", "cp"}, WideWidth, TRUE),
     UploadedFile("b", "write", {}, NarrowWidth, FALSE)}

\* the mapping and the template the mapping section leaves: the defaults on
\* the default template, the defaults with one column moved far to the
\* right, and no mapping at all on a template without default columns
BatchMappings ==
    {[cols |-> DefaultTemplateColumns, sm |-> [set |-> TRUE, m |-> DEFAULT_MAPPING]],
     [cols |-> DefaultTemplateColumns,
      sm |-> [set |-> TRUE, m |-> [DEFAULT_MAPPING EXCEPT !["memo"] = Col2("A", "Z")]]],
     [cols |-> {"extra"}, sm |-> [set |-> TRUE, m |-> <<>>]],
     [cols |-> {}, sm |-> [set |-> TRUE, m |-> <<>>]]}

InitBatch ==
    /\ ColInit
    /\ PipeIdle
    /\ RenderIdle
    /\ ClassifyIdle
    /\ InvoiceIdle
    /\ \E bm \in BatchMappings :
          /\ template_columns = bm.cols
          /\ session_mapping = bm.sm
    /\ mpc = "idle"
    /\ mapping_upload = NoUpload
    /\ batch_files \in RowLists(BatchUniverse, MaxBatch)
    /\ bi = 0
    /\ bpc = "clicked"
    /\ logs = <<>>
    /\ zip_entries = <<>>
    /\ batch_download = <<>>

NextBatch == BatchStart \/ BatchFile \/ BatchFinish

SpecBatch == InitBatch /\ [][NextBatch]_vars

(***************************************************************************)
(* Properties of the batch handler                                         *)
(***************************************************************************)

Workbooks(z) == SelectSeq(z, LAMBDA e : e.kind = "workbook")

OkLines == SelectSeq(logs, LAMBDA l : l.tag = "OK")

\* C28: while the loop runs and when the handler is done, the files handled
\* so far have one log entry each, in upload order, tagged OK or FAIL; the
\* ZIP holds one workbook per OK entry, in the same order, and none of a
\* file with a FAIL entry; when the handler is done every uploaded file has
\* been handled and the ZIP offered ends with the one log file.
C28_BatchHandlesEveryFile ==
    bpc \in {"loop", "end"} =>
        /\ Len(logs) = bi
        /\ \A i \in 1..Len(logs) :
              /\ logs[i].file = i
              /\ logs[i].name = batch_files[i].name
              /\ logs[i].tag \in {"OK", "FAIL"}
        /\ Len(Workbooks(zip_entries)) = Len(OkLines)
        /\ \A j \in 1..Len(OkLines) : Workbooks(zip_entries)[j].file = OkLines[j].file
        /\ bpc = "end" =>
              /\ bi = Len(batch_files)
              /\ batch_download = zip_entries
              /\ zip_entries = Workbooks(zip_entries) \o <<LogFile>>

\* three files: the first cannot be read, the second is converted, the third
\* cannot be converted
C28_Witness ==
    /\ bpc = "end"
    /\ Len(batch_files) = 3
    /\ batch_files[1].fault = "read"
    /\ logs[1].tag = "FAIL"
    /\ logs[2].tag = "OK"
    /\ logs[3].tag = "FAIL"
    /\ batch_files[3].fault = "none"
    /\ Len(zip_entries) = 2


(***************************************************************************)
(* The Laora mapping across reruns of the script                           *)
(* (src/excel-converter/app_customizable.py, lines 57..66 and 166..204).   *)
(* The mapping is [set, m]: set says whether st.session_state has the      *)
(* entry, m is the dict as a function from column names to letters.        *)
(***************************************************************************)

RECURSIVE EncodeLoop(_, _)
\* "while n > 0: n, r = divmod(n - 1, 26); s = chr(r + 65) + s"
EncodeLoop(n, s) ==
    IF n > 0 THEN EncodeLoop((n - 1) \div 26, <<((n - 1) % 26) + OrdA>> \o s) ELSE s

\* an encoder that skips "n += 1"
index_to_excel_col_NoShift(n) == EncodeLoop(n, <<>>)
index_to_excel_col(n) == EncodeLoop(n + 1, <<>>)

excel_letters(max_cols) == [i \in 1..max_cols |-> index_to_excel_col(i - 1)]

\* the default of the slider max_letter_cols
MaxLetterCols == 104

\* "v in letters"
InLetters(v) == \E i \in 1..MaxLetterCols : excel_letters(MaxLetterCols)[i] = v

\* values of a JSON object: a text or something else
JStr(s) == [k |-> "str", s |-> s]
JNum == [k |-> "num", s |-> <<>>]

\* re.fullmatch(r"[A-Za-z]+", v)
FullMatchAnyCase(s) ==
    s # <<>> /\ \A i \in 1..Len(s) : (OrdA <= s[i] /\ s[i] <= OrdZ) \/ (97 <= s[i] /\ s[i] <= 122)

\* a load that takes every text for a column name
ValidJsonValue_AnyText(v) == v.k = "str"
\* isinstance(v, str) and re.fullmatch(r"[A-Za-z]+", v)
ValidJsonValue(v) == v.k = "str" /\ FullMatchAnyCase(v.s)

\* the dict ensure_mapping_initialized stores
Synced(sm, cols) ==
    LET m == IF sm.set THEN sm.m ELSE <<>>
        kept == {k \in DOMAIN m : k \in cols /\ m[k] # <<>>}
    IN  [k \in kept \cup (cols \cap DOMAIN DEFAULT_MAPPING) |->
            IF k \in kept THEN Upper(m[k]) ELSE DEFAULT_MAPPING[k]]

\* new_map of the JSON load
LoadedMap(loaded, cur, cols) ==
    LET valid == {k \in DOMAIN loaded : k \in cols /\ ValidJsonValue(loaded[k])}
    IN  [k \in valid \cup cols |->
            IF k \in valid THEN Upper(loaded[k].s)
            ELSE IF k \in DOMAIN cur THEN cur[k]
            ELSE IF k \in DOMAIN DEFAULT_MAPPING THEN DEFAULT_MAPPING[k]
            ELSE <<>>]

\* the selection a select box shows when the user leaves it alone
DefaultVal(cur, col) == IF col \in DOMAIN cur /\ InLetters(cur[col]) THEN cur[col] ELSE <<>>

\* {k: v for k, v in edited_mapping.items() if v}
SavedMap(edited) ==
    [k \in {c \in DOMAIN edited : edited[c] # <<>>} |-> edited[k]]

\* the script starts again: the template and the uploader may have changed
StartRerun ==
    /\ mpc \in {"new", "end"}
    /\ mpc' = "top"
    /\ template_columns' \in {DefaultTemplateColumns, {"order", "extra"}, {}}
    /\ mapping_upload' \in
          {NoUpload,
           [kind |-> "invalid", m |-> <<>>],
           [kind |-> "dict", m |-> [k \in {"order"} |-> JStr(<<98>>)]],
           [kind |-> "dict",
            m |-> [k \in {"order", "bogus"} |->
                      IF k = "order" THEN JStr(Col2("A", "B")) ELSE JStr(Col1("C"))]],
           [kind |-> "dict", m |-> [k \in {"qty"} |-> JStr(<<OrdZero + 1>>)]],
           [kind |-> "dict",
            m |-> [k \in {"order", "qty"} |->
                      IF k = "order" THEN JStr(<<OrdSpace, 97>>) ELSE JNum]],
           [kind |-> "dict", m |-> [k \in {"extra"} |-> JStr(<<>>)]]}
    /\ UNCHANGED session_mapping
    /\ UNCHANGED <<pipe_vars, col_vars, rend_vars, cls_vars, inv_vars, batch_vars>>

\* current_mapping = ensure_mapping_initialized(template_columns, DEFAULT_MAPPING)
EnsureMapping ==
    /\ mpc = "top"
    /\ session_mapping' = [set |-> TRUE, m |-> Synced(session_mapping, template_columns)]
    /\ mpc' = "ensured"
    /\ UNCHANGED <<template_columns, mapping_upload>>
    /\ UNCHANGED <<pipe_vars, col_vars, rend_vars, cls_vars, inv_vars, batch_vars>>

\* "if mapping_upload is not None": a file that is no JSON object leaves
\* the mapping alone
LoadMapping ==
    /\ mpc = "ensured"
    /\ session_mapping' =
          IF mapping_upload.kind = "dict"
          THEN [set |-> TRUE,
                m |-> LoadedMap(mapping_upload.m, session_mapping.m, template_columns)]
          ELSE session_mapping
    /\ mpc' = "loaded"
    /\ UNCHANGED <<template_columns, mapping_upload>>
    /\ UNCHANGED <<pipe_vars, col_vars, rend_vars, cls_vars, inv_vars, batch_vars>>

\* the selections a user can make in the form, and the select boxes the
\* user changes; "none" is a form left as shown
FormChoices == {<<>>, Col1("B"), Col2("A", "A")}
FormEdited(cols) == (cols \cap {"order", "qty", "extra"}) \cup {"none"}

\* the form: every select box at its default, but for one the user changed;
\* the mapping is stored when the form is submitted
MappingForm ==
    /\ mpc = "loaded"
    /\ \E submit \in BOOLEAN, col \in FormEdited(template_columns), sel \in FormChoices :
          LET edited == [c \in template_columns |->
                            IF c = col THEN sel ELSE DefaultVal(session_mapping.m, c)]
          IN  session_mapping' =
                  IF submit THEN [set |-> TRUE, m |-> SavedMap(edited)] ELSE session_mapping
    /\ mpc' = "end"
    /\ UNCHANGED <<template_columns, mapping_upload>>
    /\ UNCHANGED <<pipe_vars, col_vars, rend_vars, cls_vars, inv_vars, batch_vars>>

\* a new session, before the script has run
InitMapping ==
    /\ ColInit
    /\ PipeIdle
    /\ RenderIdle
    /\ ClassifyIdle
    /\ InvoiceIdle
    /\ BatchIdle
    /\ template_columns = {}
    /\ session_mapping = NoMapping
    /\ mpc = "new"
    /\ mapping_upload = NoUpload

NextMapping == StartRerun \/ EnsureMapping \/ LoadMapping \/ MappingForm

SpecMapping == InitMapping /\ [][NextMapping]_vars

(***************************************************************************)
(* Properties of the stored mapping                                        *)
(***************************************************************************)

\* C29: whenever one of the mapping operations of a rerun has run, the
\* stored mapping is a dict whose keys are template columns and whose
\* non-empty values are texts of the letters A..Z that excel_col_to_index
\* decodes without error.
C29_StoredMappingIsValid ==
    mpc \in {"ensured", "loaded", "end"} =>
        /\ session_mapping.set
        /\ DOMAIN session_mapping.m \subseteq template_columns
        /\ \A k \in DOMAIN session_mapping.m :
              LET v == session_mapping.m[k]
              IN  v # <<>> =>
                      /\ \A i \in 1..Len(v) : OrdA <= v[i] /\ v[i] <= OrdZ
                      /\ excel_col_to_index(v).err = ""

\* a rerun that loaded "b" for the order number from a JSON file on a
\* template with a column that has no default, and stored the form with AA
\* chosen for that column
C29_Witness ==
    /\ mpc = "end"
    /\ template_columns = {"order", "extra"}
    /\ mapping_upload.kind = "dict"
    /\ DOMAIN session_mapping.m = {"order", "extra"}
    /\ session_mapping.m["order"] = Col1("B")
    /\ session_mapping.m["extra"] = Col2("A", "A")


(***************************************************************************)
(* index_to_excel_col and excel_col_to_index applied one after the other   *)
(* (src/excel-converter/app_customizable.py, lines 21..40)                 *)
(***************************************************************************)

\* largest index encoded
MaxIndex == 750

\* the upper-case texts of 1..MaxLen letters
LetterTexts == UNION {[1..n -> OrdA..OrdZ] : n \in 1..MaxLen}

\* index_to_excel_col(n)
EncodeIndex ==
    /\ col_pc = "index"
    /\ col_letter' = index_to_excel_col(col_no)
    /\ col_pc' = "encoded"
    /\ UNCHANGED <<col_no, col_zero, col_index>>
    /\ UNCHANGED <<pipe_vars, rend_vars, cls_vars, aux_vars>>

\* excel_col_to_index of the letters just made
DecodeEncoded ==
    /\ col_pc = "encoded"
    /\ col_index' = excel_col_to_index(col_letter)
    /\ col_pc' = "index_round"
    /\ UNCHANGED <<col_letter, col_no, col_zero>>
    /\ UNCHANGED <<pipe_vars, rend_vars, cls_vars, aux_vars>>

\* excel_col_to_index(s)
DecodeLetters ==
    /\ col_pc = "letters"
    /\ col_index' = excel_col_to_index(col_letter)
    /\ col_pc' = "decoded_first"
    /\ UNCHANGED <<col_letter, col_no, col_zero>>
    /\ UNCHANGED <<pipe_vars, rend_vars, cls_vars, aux_vars>>

\* index_to_excel_col of the index just computed; col_zero holds the letters
EncodeDecoded ==
    /\ col_pc = "decoded_first"
    /\ col_index.err = ""
    /\ col_zero' = Ok(index_to_excel_col(col_index.v))
    /\ col_pc' = "letters_round"
    /\ UNCHANGED <<col_letter, col_no, col_index>>
    /\ UNCHANGED <<pipe_vars, rend_vars, cls_vars, aux_vars>>

InitLetters ==
    /\ PipeIdle
    /\ RenderIdle
    /\ ClassifyIdle
    /\ AuxIdle
    /\ col_zero = NoResult
    /\ col_index = NoResult
    /\ \/ col_pc = "index" /\ col_no \in 0..MaxIndex /\ col_letter = <<>>
       \/ col_pc = "letters" /\ col_no = 0 /\ col_letter \in LetterTexts

NextLetters == EncodeIndex \/ DecodeEncoded \/ DecodeLetters \/ EncodeDecoded

SpecLetters == InitLetters /\ [][NextLetters]_vars

\* C30: decoding the letters index_to_excel_col makes of n gives n, and the
\* letters are upper-case A..Z; encoding the index excel_col_to_index gives
\* for an upper-case text s gives s; the n-th letter excel_letters offers
\* decodes to n - 1.
C30_EncodeDecodeInverse ==
    /\ col_pc = "index_round" =>
          /\ col_index = Ok(col_no)
          /\ col_letter # <<>>
          /\ \A i \in 1..Len(col_letter) : col_letter[i] \in OrdA..OrdZ
          /\ col_no < MaxLetterCols =>
                /\ excel_letters(MaxLetterCols)[col_no + 1] = col_letter
                /\ excel_col_to_index(excel_letters(MaxLetterCols)[col_no + 1]) = Ok(col_no)
    /\ col_pc = "decoded_first" => col_index.err = ""
    /\ col_pc = "letters_round" => col_zero = Ok(col_letter)

\* the index 701 encoded as ZZ and decoded again
C30_Witness ==
    /\ col_pc = "index_round"
    /\ col_no = 701
    /\ col_letter = <<OrdZ, OrdZ>>
    /\ col_index = Ok(701)

====
